---- MODULE Spec2Model ----
(***************************************************************************)
(* State-machine model of the trading scheduler (TradingService) of        *)
(* simtwoo: the per-account recurring timers, the tick body that each      *)
(* timer firing runs, the trading cycle of one symbol, and the             *)
(* administrative operations (start, stop, confidence threshold, stored    *)
(* settings).                                                              *)
(*                                                                         *)
(* Step granularity.  A tick body is suspended at the awaits of the        *)
(* source and holds its position (pc) between two steps; steps of          *)
(* different ticks and of the administrative operations interleave         *)
(* freely, as promise continuations do on the event loop.  Two runs of     *)
(* awaits are folded into one step each, because nothing another step      *)
(* reads or writes changes inside them:                                    *)
(*   - a timer firing together with the answer of its first                *)
(*     hasReachedMaxTrades query (the query is linearised at the firing;   *)
(*     the callback touches no shared state before it);                    *)
(*   - the retry loop of bitgetService.executeTrade (it talks to the       *)
(*     exchange only).                                                     *)
(* startTradingForUser is one step as well: its read of the settings and   *)
(* its setInterval are taken together, so the closure of a new timer       *)
(* holds the settings stored at the moment of arming.                      *)
(* Trades are never closed: storage.updateTrade has no caller, so the      *)
(* number of OPEN rows of an account only grows.                           *)
(* Accounts share confidenceThreshold and pairPerformance only; every      *)
(* other piece of state is keyed by the account.                           *)
(*                                                                         *)
(* Specifications.                                                         *)
(*   Spec          the scheduler: administrative operations of one         *)
(*                 account, its timers and its ticks, from construction.   *)
(*                 One account is enough to exhibit all interleavings of   *)
(*                 its timers and ticks; the second account stays as       *)
(*                 constructed.                                            *)
(*   CycleSpec     the trading cycles of two running accounts, one on a    *)
(*                 tracked pair with a supported strategy, one with the    *)
(*                 default settings, with the outcome of the latest        *)
(*                 finished cycle kept as history (lastCycle).             *)
(*   TickLiveSpec  the ticks in flight of stopped accounts, with the       *)
(*                 fairness the runtime gives to continuations of          *)
(*                 storage calls.                                          *)
(*   ThresholdSpec setConfidenceThreshold over a range of arguments.       *)
(*   PerfSpec      updatePairPerformance over sequences of updates.        *)
(*   RetrySpec     one tick in flight of a stopped account, with the       *)
(*                 retry loop of bitgetService.executeTrade unfolded, one  *)
(*                 attempt per step.                                       *)
(*   SharedPairSpec the ticks of two accounts that trade the same pair.    *)
(*   RankSpec      getTopTradingPairs over the records that updates leave. *)
(*   SizerSpec     one tick at the position size, over ranges of balance,  *)
(*                 risk and price.                                         *)
(*   StrategySpec  one tick of each strategy over the indicator values     *)
(*                 of a window of candles (market).                        *)
(*   StreamSpec    the MACD strategy over the successive windows of a      *)
(*                 running account.                                        *)
(*   EmaSpec       the EMA strategy over strictly increasing series of     *)
(*                 60 closes.                                              *)
(*   LedgerSpec    the ticks in flight of two single-symbol accounts,      *)
(*                 with the accepted orders, the stored rows and the       *)
(*                 order of the exchange and snapshot calls kept as        *)
(*                 history (ledger).                                       *)
(***************************************************************************)
EXTENDS Integers, Sequences, FiniteSets, Bags, TLC

\* ------------------------------------------------------------------ bounds
\* Intervals armed at the same time, over all accounts.
MaxTimers == 2
\* Tick bodies in flight at the same time, over all accounts.
MaxTicks == 2

\* Updates of one pair's performance record.
MaxPerfUpdates == 2
\* Successive windows of candles that one account evaluates.
MaxWindows == 3
\* Arguments of setConfidenceThreshold reach this far outside [0, 100].
ThresholdMargin == 3

\* --------------------------------------------------------------- constants
Users == {1, 2}
\* The account whose administrative operations Spec explores.
Traders == {1}

\* private maxConcurrentTrades: number = 3
maxConcurrentTrades == 3
\* private confidenceThreshold: number = 70
InitialConfidenceThreshold == 70
\* analyzeMarket: if (candles.length < 50) throw
MinCandles == 50
\* bitgetService.executeTrade: const maxRetries = 3
maxRetries == 3

\* tradingPairs, in configuration order; weights in thousandths.
tradingPairs ==
  << [symbol |-> "BTCUSDT",  weight |-> 300],
     [symbol |-> "ETHUSDT",  weight |-> 250],
     [symbol |-> "BNBUSDT",  weight |-> 200],
     [symbol |-> "XRPUSDT",  weight |-> 150],
     [symbol |-> "DOGEUSDT", weight |-> 100] >>

PairSymbols == {tradingPairs[i].symbol : i \in 1..Len(tradingPairs)}

\* Fixed-point unit of successRate and volatility (both are fractions in
\* the source): exact for up to MaxPerfUpdates applications of the
\* smoothing, each of which divides by 10.
PerfScale == 10 ^ MaxPerfUpdates

\* type Strategy = 'MACD' | 'RSI' | 'BOLLINGER' | 'EMA'
SupportedStrategies == {"MACD", "RSI", "BOLLINGER", "EMA"}

\* ------------------------------------------------------------ environment
\* Bodies of POST /api/trading/settings: the default settings of the start
\* route, and a single-symbol configuration.  SOLUSDT is a symbol outside
\* tradingPairs: the text column accepts it, and updatePairPerformance
\* returns early for it.
SettingsBodies ==
  { [symbol |-> "BTCUSDT", timeframe |-> "15m", strategy |-> "ENSEMBLE",
     riskPerTrade |-> 1, enabledTrading |-> TRUE],
    [symbol |-> "SOLUSDT", timeframe |-> "1h",  strategy |-> "RSI",
     riskPerTrade |-> 2, enabledTrading |-> TRUE] }

\* Arguments of setConfidenceThreshold (two of them out of range).
ThresholdInputs == {-1, 60, 70, 101}

\* What the indicators of the fetched window say: no trigger, or a trigger
\* with the confidence the strategy computes for it.
NoTrigger == [side |-> "none", confidence |-> 0]
AnalysisChoices ==
  { NoTrigger,
    [side |-> "buy", confidence |-> 60] }

\* Number of candles getKlines returns.
CandleCounts == {49, 100}
\* calculateVolatility of the window, in percent.
VolatilityChoices == {2}
\* Close of the latest candle.
PriceChoices == {50000}
\* availableBalance returned by getAccountBalance.
BalanceChoices == {0, 1000}

VARIABLES
  settingsStore,       \* trading_settings rows of each user (0 or 1 row)
  openTrades,          \* number of trades rows with status OPEN, per user
  runningIntervals,    \* TradingService.runningIntervals: the interval under key
                       \* user-<id> (0 or 1 of them)
  timers,              \* bag of the armed intervals (the runtime's timer list)
  isRunning,           \* TradingService.isRunning
  confidenceThreshold, \* TradingService.confidenceThreshold
  pairPerformance,     \* TradingService.pairPerformance
  ticks,               \* bag of the tick bodies in flight
  startResult,         \* value returned by the latest startTradingForUser
  capSkipped,          \* history: a timer firing of the user was skipped at the cap
  lastThresholdWrite,  \* history: latest in-range argument of setConfidenceThreshold
  lastCycle,           \* history: how the latest finished runTradingCycle ended
                       \* (kept by CycleSpec only)
  retry,               \* bitgetService.executeTrade in progress: the outcomes its
                       \* attempts will meet, its attempt counter and its status
  market,              \* the indicators analyzeMarket computed from the latest
                       \* window of candles, and the windows before it (kept by
                       \* the specifications of the strategies only)
  ledger               \* history: the orders the gateway accepted, the trades
                       \* and balance_history rows the cycles wrote, and the
                       \* order of these calls (kept by LedgerSpec only)

vars == << settingsStore, openTrades, runningIntervals, timers,
           isRunning, confidenceThreshold, pairPerformance, ticks,
           startResult, capSkipped, lastThresholdWrite, lastCycle, retry, market,
           ledger >>

\* ------------------------------------------------------------ pure helpers
NoSignal == [symbol |-> "", side |-> "none", price |-> 0, strategy |-> "",
             confidence |-> 0]

\* convertTimeframeToMs
ConvertTimeframeToMs(timeframe) ==
  CASE timeframe = "1m"  -> 60 * 1000
    [] timeframe = "15m" -> 15 * 60 * 1000
    [] timeframe = "1h"  -> 60 * 60 * 1000
    [] timeframe = "1d"  -> 24 * 60 * 60 * 1000
    [] OTHER             -> 60 * 60 * 1000

\* Variant of hasReachedMaxTrades with a strict comparison (`>`): lets a tick
\* through at exactly maxConcurrentTrades open trades.
HasReachedMaxTradesStrict(openCount) == openCount > maxConcurrentTrades

\* Variant with an equality test (`===`): lets a tick through once
\* overlapping ticks have taken the account past the cap.
HasReachedMaxTradesExact(openCount) == openCount = maxConcurrentTrades

\* hasReachedMaxTrades, given the number of rows getOpenTrades returned
HasReachedMaxTrades(openCount) == openCount >= maxConcurrentTrades

\* Score of getTopTradingPairs, in units of 1 / (1000 * PerfScale).
PairScore(perf, i) ==
  tradingPairs[i].weight * PerfScale
    + perf[tradingPairs[i].symbol].volatility * 300
    + perf[tradingPairs[i].symbol].successRate * 500

\* Variant of the sort that puts the later of two pairs with equal scores
\* first.
PairRankUnstable(perf, i) ==
  Cardinality({ j \in 1..Len(tradingPairs) :
                  \/ PairScore(perf, j) > PairScore(perf, i)
                  \/ PairScore(perf, j) = PairScore(perf, i) /\ j > i })

\* Position of pair i after the stable descending sort.
PairRank(perf, i) ==
  Cardinality({ j \in 1..Len(tradingPairs) :
                  \/ PairScore(perf, j) > PairScore(perf, i)
                  \/ PairScore(perf, j) = PairScore(perf, i) /\ j < i })

\* getTopTradingPairs(count)
GetTopTradingPairs(perf, count) ==
  LET n == IF count < Len(tradingPairs) THEN count ELSE Len(tradingPairs)
  IN  [ k \in 1..n |->
          LET i == CHOOSE i \in 1..Len(tradingPairs) : PairRank(perf, i) = k - 1
          IN  tradingPairs[i].symbol ]

\* Variant of updatePairPerformance that smooths from the record the
\* constructor wrote instead of the record's current value (a write
\* computed from a stale read).
UpdatePairPerformanceFromStale(perf, symbol, tradeSuccess, volatility) ==
  IF symbol \notin DOMAIN perf
  THEN perf
  ELSE [perf EXCEPT ![symbol] =
          [ successRate |-> ((IF tradeSuccess THEN PerfScale ELSE 0) * 3) \div 10,
            volatility  |-> (volatility * PerfScale * 2) \div 10,
            lastUpdated |-> @.lastUpdated + 1 ]]

\* Variant of updatePairPerformance with the two weights of the success
\* rate exchanged.
UpdatePairPerformanceSwappedWeights(perf, symbol, tradeSuccess, volatility) ==
  IF symbol \notin DOMAIN perf
  THEN perf
  ELSE [perf EXCEPT ![symbol] =
          [ successRate |-> (@.successRate * 3
                              + (IF tradeSuccess THEN PerfScale ELSE 0) * 7) \div 10,
            volatility  |-> (@.volatility * 8 + volatility * PerfScale * 2) \div 10,
            lastUpdated |-> @.lastUpdated + 1 ]]

\* Variant of updatePairPerformance that counts every update as a success.
UpdatePairPerformanceAlwaysSuccess(perf, symbol, tradeSuccess, volatility) ==
  IF symbol \notin DOMAIN perf
  THEN perf
  ELSE [perf EXCEPT ![symbol] =
          [ successRate |-> (@.successRate * 7 + PerfScale * 3) \div 10,
            volatility  |-> (@.volatility * 8 + volatility * PerfScale * 2) \div 10,
            lastUpdated |-> @.lastUpdated + 1 ]]

\* updatePairPerformance
UpdatePairPerformance(perf, symbol, tradeSuccess, volatility) ==
  IF symbol \notin DOMAIN perf
  THEN perf
  ELSE [perf EXCEPT ![symbol] =
          [ successRate |-> (@.successRate * 7
                              + (IF tradeSuccess THEN PerfScale ELSE 0) * 3) \div 10,
            volatility  |-> (@.volatility * 8 + volatility * PerfScale * 2) \div 10,
            lastUpdated |-> @.lastUpdated + 1 ]]

\* The update is representable: the pair's record has been updated fewer
\* than MaxPerfUpdates times (or the symbol has no record).
PerfRoom(perf, symbol) ==
  symbol \in DOMAIN perf => perf[symbol].lastUpdated < MaxPerfUpdates

\* Variant of analyzeMarket whose switch has no throwing default branch.
AnalyzeMarketAnyStrategy(candleCount, strategy, analysis, price) ==
  IF candleCount < MinCandles
  THEN [throws |-> TRUE, error |-> "Not enough data for analysis", signal |-> NoSignal]
  ELSE IF analysis.side = "none"
  THEN [throws |-> FALSE, error |-> "", signal |-> NoSignal]
  ELSE [throws |-> FALSE, error |-> "",
        signal |-> [symbol |-> "BTCUSDT", side |-> analysis.side, price |-> price,
                    strategy |-> strategy, confidence |-> analysis.confidence]]

\* Variant of analyzeMarket without the check of the number of candles.
AnalyzeMarketAnyLength(candleCount, strategy, analysis, price) ==
  IF strategy \notin SupportedStrategies
  THEN [throws |-> TRUE, error |-> "Unsupported strategy", signal |-> NoSignal]
  ELSE IF analysis.side = "none"
  THEN [throws |-> FALSE, error |-> "", signal |-> NoSignal]
  ELSE [throws |-> FALSE, error |-> "",
        signal |-> [symbol |-> "BTCUSDT", side |-> analysis.side, price |-> price,
                    strategy |-> strategy, confidence |-> analysis.confidence]]

\* analyzeMarket: throws for too few candles or an unsupported strategy, else
\* returns the signal (NoSignal for null).  The symbol is the literal of the source.
AnalyzeMarket(candleCount, strategy, analysis, price) ==
  IF candleCount < MinCandles
  THEN [throws |-> TRUE, error |-> "Not enough data for analysis", signal |-> NoSignal]
  ELSE IF strategy \notin SupportedStrategies
  THEN [throws |-> TRUE, error |-> "Unsupported strategy", signal |-> NoSignal]
  ELSE IF analysis.side = "none"
  THEN [throws |-> FALSE, error |-> "", signal |-> NoSignal]
  ELSE [throws |-> FALSE, error |-> "",
        signal |-> [symbol |-> "BTCUSDT", side |-> analysis.side, price |-> price,
                    strategy |-> strategy, confidence |-> analysis.confidence]]

\* Variant of the gate that drops the confidence comparison.
PassesGateAnySignal(signal, threshold) == signal # NoSignal

\* runTradingCycle step 4: signal && signal.confidence >= this.confidenceThreshold
PassesGate(signal, threshold) ==
  signal # NoSignal /\ signal.confidence >= threshold

\* Variant of calculatePositionSize with the comparison of the minimum
\* size reversed.
CalculatePositionSizeReversedTest(availableBalance, riskPercentage, price) ==
  LET num == availableBalance * riskPercentage * 1000
  IN  IF num > price THEN 0
      ELSE (2 * num + price) \div (2 * price)

\* Variant of calculatePositionSize without the minimum size.
CalculatePositionSizeNoMinimum(availableBalance, riskPercentage, price) ==
  LET num == availableBalance * riskPercentage * 1000
  IN  (2 * num + price) \div (2 * price)

\* calculatePositionSize, in units of 0.00001; toDecimalPlaces(5) rounds half up.
CalculatePositionSize(availableBalance, riskPercentage, price) ==
  LET num == availableBalance * riskPercentage * 1000
  IN  IF num < price THEN 0
      ELSE (2 * num + price) \div (2 * price)

\* Variant of setConfidenceThreshold without the range check.
SetThresholdUnchecked(current, threshold) == threshold

\* Variant of setConfidenceThreshold that drops the assignment.
SetThresholdIgnored(current, threshold) == current

\* setConfidenceThreshold
SetThreshold(current, threshold) ==
  IF threshold >= 0 /\ threshold <= 100 THEN threshold ELSE current

\* Values of lastCycle before any cycle has finished: in a specification
\* that keeps no history, and in one that does.
Unobserved ==
  [user |-> 0, symbol |-> "", strategy |-> "", endedAt |-> "", cause |-> "unobserved",
   candleCount |-> 0]
NoCycleYet == [Unobserved EXCEPT !.cause = "none"]


\* The indicators of one window: rsi; previous and current, the last two
\* MACD results; close and bands; the last two results of each EMA.
FlatReading ==
  [ rsi      |-> 50,
    previous |-> [MACD |-> 0, signal |-> 0, histogram |-> 0],
    current  |-> [MACD |-> 0, signal |-> 0, histogram |-> 0],
    close    |-> 50000,
    bands    |-> [lower |-> 50000, upper |-> 50000],
    shortEMA |-> [previous |-> 50000, current |-> 50000],
    longEMA  |-> [previous |-> 50000, current |-> 50000] ]

\* No window has been evaluated.  strategy, reading, outcome: the latest
\* call of analyzeMarket; windows: the number of calls; trend: the sign
\* MACD - signal had at the latest point before the current one where it
\* was not 0; spanFires: the number of signals emitted since that point;
\* closes: the closes of the candles getKlines will return.
NoMarket ==
  [strategy |-> "", windows |-> 0, reading |-> FlatReading, outcome |-> NoTrigger,
   trend |-> 0, spanFires |-> 0, closes |-> << >>]

\* No executeTrade call of the gateway is being followed.
NoRetry ==
  [outcomes |-> << >>, attempt |-> 0, placed |-> 0, accepted |-> 0,
   status |-> "idle"]

\* Values of ledger before any call: in a specification that keeps no
\* ledger, and in one that does.  orders: the calls of executeTrade the
\* gateway answered with an order; trades, balances: the rows of the tables;
\* calls: the exchange and snapshot calls in the order they were answered.
NoLedger ==
  [kept |-> FALSE, orders |-> << >>, trades |-> << >>, balances |-> << >>,
   calls |-> << >>]
EmptyLedger == [NoLedger EXCEPT !.kept = TRUE]

\* The ledger is kept only where the initial state asks for it.
Keep(l) == IF ledger.kept THEN l ELSE ledger

\* Decimal.toString of a size of x units of 0.00001 (x < 10^7 units, so
\* never in exponent notation): the integer part, and the digits after the
\* point without trailing zeros.
RECURSIVE StripZeros(_)
StripZeros(digits) ==
  IF digits # << >> /\ digits[Len(digits)] = 0
  THEN StripZeros(SubSeq(digits, 1, Len(digits) - 1))
  ELSE digits
SizeString(x) ==
  [int  |-> x \div 100000,
   frac |-> StripZeros(<< (x \div 10000) % 10, (x \div 1000) % 10,
                          (x \div 100) % 10, (x \div 10) % 10, x % 10 >>)]

\* Variant of the parse that reads the integer part only.
NewDecimalWholeOnly(str) == str.int * 100000

\* new Decimal(str) of such a string, in units of 0.00001.
RECURSIVE FracUnits(_, _)
FracUnits(digits, weight) ==
  IF digits = << >> THEN 0
  ELSE Head(digits) * weight + FracUnits(Tail(digits), weight \div 10)
NewDecimal(str) == str.int * 100000 + FracUnits(str.frac, 10000)

\* The arguments of bitgetService.executeTrade, with the account and the
\* strategy of the signal they were built from.
OrderOf(t) ==
  [userId |-> t.user, symbol |-> t.signal.symbol, side |-> t.signal.side,
   size |-> SizeString(t.size), strategy |-> t.signal.strategy]

\* The InsertTrade executeTrade builds, as createTrade stores it.
InsertTrade(t) ==
  [userId |-> t.user, symbol |-> t.signal.symbol, side |-> t.signal.side,
   entryPrice |-> t.signal.price, quantity |-> NewDecimal(SizeString(t.size)),
   status |-> "OPEN", strategy |-> t.signal.strategy]

\* The InsertBalanceHistory recordBalance builds from the balance it is
\* passed.
InsertBalanceHistory(userId, balance) ==
  [userId |-> userId, availableBalance |-> balance]

\* storage.getTrades and storage.getOpenTrades over the rows of the ledger.
GetTrades(userId) == SelectSeq(ledger.trades, LAMBDA r : r.userId = userId)
GetOpenTrades(userId) ==
  SelectSeq(ledger.trades, LAMBDA r : r.userId = userId /\ r.status = "OPEN")

\* An answered call of the exchange or of saveBalance, as the ledger keeps it.
Call(name, userId, value) == [call |-> name, userId |-> userId, value |-> value]

\* ---------------------------------------------------------------- initial
Init ==
  /\ settingsStore = [u \in Users |-> << >>]
  /\ openTrades = [u \in Users |-> 0]
  /\ runningIntervals = [u \in Users |-> << >>]
  /\ timers = EmptyBag
  /\ isRunning = FALSE
  /\ confidenceThreshold = InitialConfidenceThreshold
  /\ pairPerformance =
       [s \in PairSymbols |-> [successRate |-> 0, volatility |-> 0, lastUpdated |-> 0]]
  /\ ticks = EmptyBag
  /\ startResult = "none"
  /\ capSkipped = [u \in Users |-> FALSE]
  /\ lastThresholdWrite = InitialConfidenceThreshold
  /\ lastCycle = Unobserved
  /\ retry = NoRetry
  /\ market = NoMarket
  /\ ledger = NoLedger

\* ------------------------------------------------- administrative operations
\* POST /api/trading/settings: create the user's row or overwrite it.
SaveSettings(u, body) ==
  /\ settingsStore' = [settingsStore EXCEPT ![u] = << body >>]
  /\ UNCHANGED << openTrades, runningIntervals, timers, isRunning,
                  confidenceThreshold, pairPerformance, ticks, startResult,
                  capSkipped, lastThresholdWrite, lastCycle, retry, market, ledger >>

\* updateTradingSettings(settings.id, { enabledTrading }) of the start and
\* stop routes: only for a user whose row exists.
SetEnabledTrading(u, enabled) ==
  /\ settingsStore[u] # << >>
  /\ settingsStore' =
       [settingsStore EXCEPT ![u] = << [@[1] EXCEPT !.enabledTrading = enabled] >>]
  /\ UNCHANGED << openTrades, runningIntervals, timers, isRunning,
                  confidenceThreshold, pairPerformance, ticks, startResult,
                  capSkipped, lastThresholdWrite, lastCycle, retry, market, ledger >>

\* Variant of startTradingForUser that swallows the missing-settings error
\* and returns true.
StartOutcomeSwallowsMissing(rows) ==
  IF rows = << >> THEN [arm |-> FALSE, result |-> "started"]
  ELSE IF ~ rows[1].enabledTrading THEN [arm |-> FALSE, result |-> "not started"]
  ELSE [arm |-> TRUE, result |-> "started"]

\* What startTradingForUser does with the rows getTradingSettings returned:
\* whether it arms a timer, and the value it returns.
StartOutcome(rows) ==
  IF rows = << >> THEN [arm |-> FALSE, result |-> "not started"]
  ELSE IF ~ rows[1].enabledTrading THEN [arm |-> FALSE, result |-> "not started"]
  ELSE [arm |-> TRUE, result |-> "started"]

\* The interval setInterval returns: its callback's closure (userId, settings)
\* and its period.
NewInterval(u, settings) ==
  [ user     |-> u,
    settings |-> settings,
    interval |-> ConvertTimeframeToMs(settings.timeframe) ]

\* startTradingForUser
StartTradingForUser(u) ==
  \/ \* getTradingSettings rejects: caught, return false
     /\ startResult' = "not started"
     /\ UNCHANGED << settingsStore, openTrades, runningIntervals, timers,
                     isRunning, confidenceThreshold, pairPerformance, ticks,
                     capSkipped, lastThresholdWrite, lastCycle, retry, market, ledger >>
  \/ LET rows == settingsStore[u]
         out  == StartOutcome(rows)
     IN  IF out.arm
         THEN /\ BagCardinality(timers) < MaxTimers
              /\ timers' = timers (+) SetToBag({NewInterval(u, rows[1])})
              /\ runningIntervals' =
                   [runningIntervals EXCEPT ![u] = << NewInterval(u, rows[1]) >>]
              /\ isRunning' = TRUE
              /\ startResult' = out.result
              /\ UNCHANGED << settingsStore, openTrades, confidenceThreshold,
                              pairPerformance, ticks, capSkipped,
                              lastThresholdWrite, lastCycle, retry, market, ledger >>
         ELSE /\ startResult' = out.result
              /\ UNCHANGED << settingsStore, openTrades, runningIntervals, timers,
                              isRunning, confidenceThreshold, pairPerformance,
                              ticks, capSkipped, lastThresholdWrite, lastCycle, retry, market, ledger >>

\* stopTradingForUser
StopTradingForUser(u) ==
  /\ IF runningIntervals[u] # << >>
     THEN /\ timers' = timers (-) SetToBag({runningIntervals[u][1]})
          /\ runningIntervals' = [runningIntervals EXCEPT ![u] = << >>]
     ELSE UNCHANGED << timers, runningIntervals >>
  /\ UNCHANGED << settingsStore, openTrades, isRunning, confidenceThreshold,
                  pairPerformance, ticks, startResult, capSkipped,
                  lastThresholdWrite, lastCycle, retry, market, ledger >>

\* setConfidenceThreshold
SetConfidenceThreshold(threshold) ==
  /\ confidenceThreshold' = SetThreshold(confidenceThreshold, threshold)
  /\ lastThresholdWrite' =
       IF threshold >= 0 /\ threshold <= 100 THEN threshold ELSE lastThresholdWrite
  /\ UNCHANGED << settingsStore, openTrades, runningIntervals, timers,
                  isRunning, pairPerformance, ticks, startResult, capSkipped, lastCycle, retry, market, ledger >>

\* getConfidenceThreshold
GetConfidenceThreshold == confidenceThreshold

\* isActive
IsActive == isRunning

\* Variant of bitgetService.executeTrade without the loop: one attempt.
GatewayExecuteTradeNoRetry(outcomes, attempt) ==
  [ok |-> outcomes[attempt + 1] = "ok", attempts |-> attempt + 1]

\* The retry loop of bitgetService.executeTrade over the outcomes of its
\* attempts ("ok": ticker and placeOrder answered; anything else: the
\* attempt threw).
RECURSIVE GatewayExecuteTrade(_, _)
GatewayExecuteTrade(outcomes, attempt) ==
  IF attempt >= maxRetries THEN [ok |-> FALSE, attempts |-> attempt]
  ELSE IF outcomes[attempt + 1] = "ok" THEN [ok |-> TRUE, attempts |-> attempt + 1]
  ELSE IF attempt + 1 = maxRetries THEN [ok |-> FALSE, attempts |-> attempt + 1]
  ELSE GatewayExecuteTrade(outcomes, attempt + 1)

AttemptOutcomes == [1..maxRetries -> {"ok", "error"}]

\* ------------------------------------------------------------------- ticks
\* The tick body of one timer firing.  user, settings: the closure of the
\* interval callback (userId and the settings read by startTradingForUser).
\* pc: the await the body is suspended at.  symbols: the symbols still to be
\* cycled, the head being the current one.  candles (their number), signal,
\* volatility, balance, size: locals of the current runTradingCycle.
NewTick(tm) ==
  [ user       |-> tm.user,
    settings   |-> tm.settings,
    pc         |-> "candles",
    symbols    |-> IF tm.settings.strategy \in {"ENSEMBLE", "AUTO"}
                   THEN GetTopTradingPairs(pairPerformance, 3)
                   ELSE << tm.settings.symbol >>,
    candles    |-> 0,
    signal     |-> NoSignal,
    volatility |-> 0,
    balance    |-> 0,
    size       |-> 0 ]

\* Variant of the bookkeeping in which the end of one cycle takes every
\* other tick in flight with it.
ReplaceDroppingOthers(t, S) == SetToBag(S)

\* The bag of ticks with tick t replaced by the ticks of set S.
Replace(t, S) == (ticks (-) SetToBag({t})) (+) SetToBag(S)

\* Number of elements of the bag (of ticks, or of timers) that belong to
\* user u.
CountOf(bag, u) ==
  BagCardinality([t \in {x \in BagToSet(bag) : x.user = u} |-> bag[t]])

\* The elements of the bag that belong to user u.
BagOf(bag, u) == [t \in {x \in BagToSet(bag) : x.user = u} |-> bag[t]]

\* Number of tick bodies of user u in flight.
TicksOf(bag, u) == CountOf(bag, u)

\* Number of armed intervals whose callback trades for user u.
TimersOf(bag, u) == CountOf(bag, u)

\* The arguments of the getHistoricalData call a tick suspended at "candles"
\* is waiting for.
GetHistoricalDataArgs(t) ==
  [symbol |-> Head(t.symbols), interval |-> "15m", limit |-> 100]

\* This step starts a tick body of user u (only a timer firing does).
TickBegins(u) == TicksOf(ticks', u) > TicksOf(ticks, u)

\* Tick t is at its position because of this step.
Arrives(t) == CopiesIn(t, ticks') > CopiesIn(t, ticks)

\* The awaits of runTradingCycle behind the confidence gate.
PostGate == {"balance", "recheck", "order", "createTrade", "saveBalance"}

\* The tick after its current runTradingCycle has returned: the next symbol
\* of the for loop, or the end of the callback.
AfterCycle(t) ==
  IF Len(t.symbols) > 1
  THEN { [t EXCEPT !.pc = "candles", !.symbols = Tail(@), !.candles = 0,
                   !.signal = NoSignal, !.volatility = 0, !.balance = 0,
                   !.size = 0] }
  ELSE { }

\* History of a cycle of tick t that returns in this step: where it was
\* suspended, why it returns, and how many candles it had received.
CycleEnd(t, cause, candleCount) ==
  [user |-> t.user, symbol |-> Head(t.symbols), strategy |-> t.settings.strategy,
   endedAt |-> t.pc, cause |-> cause, candleCount |-> candleCount]

\* The history is kept only where the initial state asks for it.
Observe(end) == IF lastCycle.cause = "unobserved" THEN lastCycle ELSE end

\* setInterval fires the callback of an armed timer.  The callback's first
\* await is hasReachedMaxTrades: the step takes the query's answer, and for
\* an account below the cap resolves the symbols and calls getHistoricalData
\* for the first one.
TimerFire(tm) ==
  /\ BagCardinality(ticks) < MaxTicks
  /\ \/ \* getOpenTrades rejected: caught by the callback's try/catch
        UNCHANGED << ticks, capSkipped >>
     \/ IF HasReachedMaxTrades(openTrades[tm.user])
        THEN /\ capSkipped' = [capSkipped EXCEPT ![tm.user] = TRUE]
             /\ UNCHANGED ticks
        ELSE /\ ticks' = ticks (+) SetToBag({NewTick(tm)})
             /\ UNCHANGED capSkipped
  /\ UNCHANGED << settingsStore, openTrades, runningIntervals,
                  timers, isRunning, confidenceThreshold, pairPerformance,
                  startResult, lastThresholdWrite, lastCycle, retry, market, ledger >>

\* runTradingCycle resumes after `await this.getHistoricalData(...)` with n
\* candles, volatility v and latest close p, and with a the outcome of the
\* strategy switch of analyzeMarket: analyzeMarket and the confidence gate.
CandlesOutcome(t, n, a, v, p) ==
  LET r == AnalyzeMarket(n, t.settings.strategy, a, p)
  IN  IF r.throws
      THEN /\ ticks' = Replace(t, AfterCycle(t))
           /\ lastCycle' = Observe(CycleEnd(t, r.error, n))
           /\ UNCHANGED pairPerformance
      ELSE IF PassesGate(r.signal, confidenceThreshold)
      THEN /\ ticks' = Replace(t,
                 { [t EXCEPT !.pc = "balance", !.candles = n,
                             !.signal = r.signal, !.volatility = v] })
           /\ UNCHANGED << pairPerformance, lastCycle >>
      ELSE /\ PerfRoom(pairPerformance, Head(t.symbols))
           /\ pairPerformance' =
                UpdatePairPerformance(pairPerformance, Head(t.symbols), TRUE, v)
           /\ ticks' = Replace(t, AfterCycle(t))
           /\ lastCycle' =
                Observe(CycleEnd(t, IF r.signal = NoSignal THEN "noSignal"
                                    ELSE "belowThreshold", n))

\* The same await, with the number of candles, the outcome of the strategy
\* switch, the volatility and the latest close drawn from the environment,
\* or with getKlines rejecting.
CycleCandles(t) ==
  /\ t.pc = "candles"
  /\ \/ \* getKlines rejected: caught by runTradingCycle
        /\ ticks' = Replace(t, AfterCycle(t))
        /\ lastCycle' = Observe(CycleEnd(t, "rejected", 0))
        /\ UNCHANGED pairPerformance
     \/ \E n \in CandleCounts, a \in AnalysisChoices,
           v \in VolatilityChoices, p \in PriceChoices :
          CandlesOutcome(t, n, a, v, p)
  /\ UNCHANGED << settingsStore, openTrades, runningIntervals, timers, isRunning,
                  confidenceThreshold, startResult, lastThresholdWrite,
                  capSkipped, retry, market, ledger >>

\* runTradingCycle resumes after `await bitgetService.getAccountBalance()`
\* and calls hasReachedMaxTrades again.
CycleBalance(t) ==
  /\ t.pc = "balance"
  /\ \/ \* getAccountBalance rejected: caught by runTradingCycle
        /\ ticks' = Replace(t, AfterCycle(t))
        /\ lastCycle' = Observe(CycleEnd(t, "rejected", t.candles))
        /\ UNCHANGED ledger
     \/ \E b \in BalanceChoices :
          /\ ticks' = Replace(t, { [t EXCEPT !.pc = "recheck", !.balance = b] })
          /\ ledger' = Keep([ledger EXCEPT !.calls =
                               Append(@, Call("getAccountBalance", t.user, b))])
          /\ UNCHANGED lastCycle
  /\ UNCHANGED << settingsStore, openTrades, runningIntervals,
                  timers, isRunning, confidenceThreshold, pairPerformance,
                  startResult, lastThresholdWrite, capSkipped, retry, market >>

\* runTradingCycle resumes after the second `await this.hasReachedMaxTrades`:
\* position size, and the call of executeTrade when it is > 0.
CycleRecheck(t) ==
  /\ t.pc = "recheck"
  /\ \/ \* getOpenTrades rejected: caught by runTradingCycle
        /\ ticks' = Replace(t, AfterCycle(t))
        /\ lastCycle' = Observe(CycleEnd(t, "rejected", t.candles))
     \/ LET size == CalculatePositionSize(t.balance, t.settings.riskPerTrade,
                                          t.signal.price)
        IN  IF HasReachedMaxTrades(openTrades[t.user])
            THEN /\ ticks' = Replace(t, AfterCycle(t))
                 /\ lastCycle' = Observe(CycleEnd(t, "capReached", t.candles))
            ELSE IF size > 0
            THEN /\ ticks' = Replace(t, { [t EXCEPT !.pc = "order", !.size = size] })
                 /\ UNCHANGED lastCycle
            ELSE /\ ticks' = Replace(t, AfterCycle(t))
                 /\ lastCycle' = Observe(CycleEnd(t, "zeroSize", t.candles))
  /\ UNCHANGED << settingsStore, openTrades, runningIntervals,
                  timers, isRunning, confidenceThreshold, pairPerformance,
                  startResult, lastThresholdWrite, capSkipped, retry, market, ledger >>

\* executeTrade (of the trading service) resumes after
\* `await bitgetService.executeTrade(...)`: on return it calls createTrade,
\* on rejection runTradingCycle's inner catch records the failure.
OrderOutcome(t, ok) ==
  IF ok
  THEN /\ ticks' = Replace(t, { [t EXCEPT !.pc = "createTrade"] })
       /\ ledger' = Keep([ledger EXCEPT
                            !.orders = Append(@, OrderOf(t)),
                            !.calls = Append(@, Call("placeOrder", t.user, t.size))])
       /\ UNCHANGED << pairPerformance, lastCycle >>
  ELSE \* executeTrade rejects: the inner catch of runTradingCycle
       /\ PerfRoom(pairPerformance, Head(t.symbols))
       /\ pairPerformance' =
            UpdatePairPerformance(pairPerformance, Head(t.symbols), FALSE,
                                  t.volatility)
       /\ ticks' = Replace(t, AfterCycle(t))
       /\ lastCycle' = Observe(CycleEnd(t, "orderFailed", t.candles))
       /\ UNCHANGED ledger

\* The same await with the gateway's retry loop folded into the step, over
\* the outcomes of its attempts.
CycleOrder(t) ==
  /\ t.pc = "order"
  /\ \E outcomes \in AttemptOutcomes :
       OrderOutcome(t, GatewayExecuteTrade(outcomes, 0).ok)
  /\ UNCHANGED << settingsStore, openTrades, runningIntervals,
                  timers, isRunning, confidenceThreshold, startResult,
                  lastThresholdWrite, capSkipped, retry, market >>

\* executeTrade resumes after `await storage.createTrade(trade)`; on return
\* runTradingCycle calls recordBalance.
CycleCreateTrade(t) ==
  /\ t.pc = "createTrade"
  /\ \/ \* createTrade rejected: the inner catch of runTradingCycle
        /\ PerfRoom(pairPerformance, Head(t.symbols))
        /\ pairPerformance' =
             UpdatePairPerformance(pairPerformance, Head(t.symbols), FALSE,
                                   t.volatility)
        /\ ticks' = Replace(t, AfterCycle(t))
        /\ lastCycle' = Observe(CycleEnd(t, "rejected", t.candles))
        /\ UNCHANGED << openTrades, ledger >>
     \/ /\ openTrades' = [openTrades EXCEPT ![t.user] = @ + 1]
        /\ ledger' = Keep([ledger EXCEPT !.trades = Append(@, InsertTrade(t))])
        /\ ticks' = Replace(t, { [t EXCEPT !.pc = "saveBalance"] })
        /\ UNCHANGED << pairPerformance, lastCycle >>
  /\ UNCHANGED << settingsStore, runningIntervals, timers,
                  isRunning, confidenceThreshold, startResult,
                  lastThresholdWrite, capSkipped, retry, market >>

\* runTradingCycle resumes after `await this.recordBalance(userId, balance)`.
CycleSaveBalance(t) ==
  /\ t.pc = "saveBalance"
  /\ PerfRoom(pairPerformance, Head(t.symbols))
  /\ \/ \* saveBalance rejected: the inner catch of runTradingCycle
        /\ pairPerformance' =
             UpdatePairPerformance(pairPerformance, Head(t.symbols), FALSE,
                                   t.volatility)
        /\ lastCycle' = Observe(CycleEnd(t, "rejected", t.candles))
        /\ UNCHANGED ledger
     \/ /\ pairPerformance' =
             UpdatePairPerformance(pairPerformance, Head(t.symbols), TRUE,
                                   t.volatility)
        /\ lastCycle' = Observe(CycleEnd(t, "executed", t.candles))
        /\ ledger' = Keep([ledger EXCEPT
                             !.balances =
                               Append(@, InsertBalanceHistory(t.user, t.balance)),
                             !.calls =
                               Append(@, Call("saveBalance", t.user, t.balance))])
  /\ ticks' = Replace(t, AfterCycle(t))
  /\ UNCHANGED << settingsStore, openTrades, runningIntervals, timers,
                  isRunning, confidenceThreshold, startResult,
                  lastThresholdWrite, capSkipped, retry, market >>

\* ------------------------------------------------------------ specification
Next ==
  \/ \E u \in Traders, body \in SettingsBodies : SaveSettings(u, body)
  \/ \E u \in Traders, enabled \in BOOLEAN : SetEnabledTrading(u, enabled)
  \/ \E u \in Traders : StartTradingForUser(u)
  \/ \E u \in Traders : StopTradingForUser(u)
  \/ \E threshold \in ThresholdInputs : SetConfidenceThreshold(threshold)
  \/ \E tm \in BagToSet(timers) : TimerFire(tm)
  \/ \E t \in BagToSet(ticks) : CycleCandles(t)
  \/ \E t \in BagToSet(ticks) : CycleBalance(t)
  \/ \E t \in BagToSet(ticks) : CycleRecheck(t)
  \/ \E t \in BagToSet(ticks) : CycleOrder(t)
  \/ \E t \in BagToSet(ticks) : CycleCreateTrade(t)
  \/ \E t \in BagToSet(ticks) : CycleSaveBalance(t)

Spec == Init /\ [][Next]_vars

\* ------------------------------------------------------- trading cycles
\* Settings of an account that trades one tracked pair with a supported
\* strategy, and the default settings the start route creates.
TrackedSettings ==
  [symbol |-> "BTCUSDT", timeframe |-> "15m", strategy |-> "RSI",
   riskPerTrade |-> 1, enabledTrading |-> TRUE]
DefaultSettings ==
  [symbol |-> "BTCUSDT", timeframe |-> "15m", strategy |-> "ENSEMBLE",
   riskPerTrade |-> 1, enabledTrading |-> TRUE]

\* Settings each account has stored and was started with in CycleSpec.
CycleSettings == [u \in Users |-> IF u = 1 THEN TrackedSettings ELSE DefaultSettings]

\* Both accounts have been started once, and no timer has fired yet.
CycleInit ==
  /\ settingsStore = [u \in Users |-> << CycleSettings[u] >>]
  /\ openTrades = [u \in Users |-> 0]
  /\ runningIntervals = [u \in Users |-> << NewInterval(u, CycleSettings[u]) >>]
  /\ timers = SetToBag({NewInterval(u, CycleSettings[u]) : u \in Users})
  /\ isRunning = TRUE
  /\ confidenceThreshold = InitialConfidenceThreshold
  /\ pairPerformance =
       [s \in PairSymbols |-> [successRate |-> 0, volatility |-> 0, lastUpdated |-> 0]]
  /\ ticks = EmptyBag
  /\ startResult = "started"
  /\ capSkipped = [u \in Users |-> FALSE]
  /\ lastThresholdWrite = InitialConfidenceThreshold
  /\ lastCycle = NoCycleYet
  /\ retry = NoRetry
  /\ market = NoMarket
  /\ ledger = NoLedger

CycleNext ==
  \/ \E threshold \in ThresholdInputs : SetConfidenceThreshold(threshold)
  \/ \E tm \in BagToSet(timers) : TimerFire(tm)
  \/ \E t \in BagToSet(ticks) : CycleCandles(t)
  \/ \E t \in BagToSet(ticks) : CycleBalance(t)
  \/ \E t \in BagToSet(ticks) : CycleRecheck(t)
  \/ \E t \in BagToSet(ticks) : CycleOrder(t)
  \/ \E t \in BagToSet(ticks) : CycleCreateTrade(t)
  \/ \E t \in BagToSet(ticks) : CycleSaveBalance(t)

CycleSpec == CycleInit /\ [][CycleNext]_vars

\* ---------------------------------------------------- confidence threshold
\* Arguments of setConfidenceThreshold: every integer of [0, 100] and
\* ThresholdMargin integers on each side of it.
ThresholdArgs == (0 - ThresholdMargin)..(100 + ThresholdMargin)

ThresholdNext ==
  \E threshold \in ThresholdArgs : SetConfidenceThreshold(threshold)

ThresholdSpec == Init /\ [][ThresholdNext]_vars

\* --------------------------------------------------------------- retry loop
\* What one attempt of bitgetService.executeTrade can meet: ticker and
\* placeOrder answer; the ticker call throws (placeOrder is not called);
\* placeOrder throws; placeOrder answers without data.
AttemptKinds == {"ok", "tickerError", "orderError", "invalidResponse"}

RetryOutcomes == [1..maxRetries -> AttemptKinds]

\* The tick body of the first firing of a timer armed for user u with the
\* settings CycleSettings[u].
FirstTick(u) == NewTick(NewInterval(u, CycleSettings[u]))

\* The account on the tracked pair was started, its timer fired once below
\* the cap and the account was stopped: the tick is in flight and no timer
\* is armed.  The outcomes that the attempts of its order submission will
\* meet are drawn here.
RetryInit ==
  /\ settingsStore = [u \in Users |-> << CycleSettings[u] >>]
  /\ openTrades = [u \in Users |-> 0]
  /\ runningIntervals = [u \in Users |-> << >>]
  /\ timers = EmptyBag
  /\ isRunning = TRUE
  /\ confidenceThreshold = InitialConfidenceThreshold
  /\ pairPerformance =
       [s \in PairSymbols |-> [successRate |-> 0, volatility |-> 0, lastUpdated |-> 0]]
  /\ ticks = SetToBag({FirstTick(1)})
  /\ startResult = "started"
  /\ capSkipped = [u \in Users |-> FALSE]
  /\ lastThresholdWrite = InitialConfidenceThreshold
  /\ lastCycle = NoCycleYet
  /\ \E outcomes \in RetryOutcomes :
       retry = [outcomes |-> outcomes, attempt |-> 0, placed |-> 0,
                accepted |-> 0, status |-> "running"]
  /\ market = NoMarket
  /\ ledger = NoLedger

\* Number of orders the exchange can have accepted in an attempt of each
\* kind.  A placeOrder call that throws, or that answers without data, has
\* sent the order: the exchange may have accepted it or not, and the loop
\* does not ask (each attempt sends a new clientOid).
AcceptedBy(kind) ==
  CASE kind = "ok" -> {1}
    [] kind = "tickerError" -> {0}
    [] OTHER -> {0, 1}

\* One iteration of `while (attempt < maxRetries)` of
\* bitgetService.executeTrade, called by the tick suspended at "order".
\* placed counts the calls of placeOrder, accepted the orders the exchange
\* accepted.
GatewayAttempt(t) ==
  /\ t.pc = "order"
  /\ retry.status = "running"
  /\ retry.attempt < maxRetries
  /\ LET kind == retry.outcomes[retry.attempt + 1]
     IN  \E orders \in AcceptedBy(kind) :
           retry' =
             IF kind = "ok"
             THEN [retry EXCEPT !.placed = @ + 1, !.accepted = @ + orders,
                                !.status = "returned"]
             ELSE \* catch: attempt++; throw at attempt === maxRetries
                  [retry EXCEPT !.attempt = @ + 1,
                                !.placed = IF kind = "tickerError" THEN @ ELSE @ + 1,
                                !.accepted = @ + orders,
                                !.status = IF retry.attempt + 1 = maxRetries
                                           THEN "thrown" ELSE "running"]
  /\ UNCHANGED << settingsStore, openTrades, runningIntervals, timers,
                  isRunning, confidenceThreshold, pairPerformance, ticks,
                  startResult, capSkipped, lastThresholdWrite, lastCycle,
                  market, ledger >>

\* The tick resumes after `await bitgetService.executeTrade(...)` once the
\* loop has returned or thrown.
RetryOrder(t) ==
  /\ t.pc = "order"
  /\ retry.status \in {"returned", "thrown"}
  /\ OrderOutcome(t, retry.status = "returned")
  /\ UNCHANGED << settingsStore, openTrades, runningIntervals,
                  timers, isRunning, confidenceThreshold, startResult,
                  lastThresholdWrite, capSkipped, retry, market >>

RetryNext ==
  \/ \E threshold \in ThresholdInputs : SetConfidenceThreshold(threshold)
  \/ \E t \in BagToSet(ticks) : CycleCandles(t)
  \/ \E t \in BagToSet(ticks) : CycleBalance(t)
  \/ \E t \in BagToSet(ticks) : CycleRecheck(t)
  \/ \E t \in BagToSet(ticks) : GatewayAttempt(t)
  \/ \E t \in BagToSet(ticks) : RetryOrder(t)
  \/ \E t \in BagToSet(ticks) : CycleCreateTrade(t)
  \/ \E t \in BagToSet(ticks) : CycleSaveBalance(t)

RetrySpec == RetryInit /\ [][RetryNext]_vars

\* ------------------------------------------------------ pair performance
\* Symbols updatePairPerformance is called with: two configured pairs and
\* one symbol that is not configured.
PerfSymbols == {"BTCUSDT", "ETHUSDT", "SOLUSDT"}

\* Volatility arguments (calculateVolatility returns a standard deviation,
\* never negative).
PerfVolatilities == {0, 2}

\* One call of updatePairPerformance.
PerfUpdate(symbol, tradeSuccess, volatility) ==
  /\ PerfRoom(pairPerformance, symbol)
  /\ pairPerformance' =
       UpdatePairPerformance(pairPerformance, symbol, tradeSuccess, volatility)
  /\ UNCHANGED << settingsStore, openTrades, runningIntervals, timers,
                  isRunning, confidenceThreshold, ticks, startResult,
                  capSkipped, lastThresholdWrite, lastCycle, retry, market, ledger >>

PerfNext ==
  \E symbol \in PerfSymbols, tradeSuccess \in BOOLEAN,
     volatility \in PerfVolatilities :
       PerfUpdate(symbol, tradeSuccess, volatility)

PerfSpec == Init /\ [][PerfNext]_vars

\* -------------------------------------------------------------- strategies
\* The indicators of a window of candles.  Confidences are whole percents
\* (the fractional part is dropped, which no comparison with a whole
\* threshold notices); MACD, signal and histogram are in tenths of a price
\* unit, so that 10 * |MACD - signal| is their plain difference.
Abs(x) == IF x < 0 THEN 0 - x ELSE x
Lesser(x, y) == IF x < y THEN x ELSE y

Trigger(side, confidence) == [side |-> side, confidence |-> confidence]

\* Variant of calculateConfidence without the cap.
CalculateConfidenceUncapped(strategy, side, current, previous) ==
  IF strategy = "MACD"
  THEN 70 + Abs(current.MACD - current.signal)
          + (IF \/ side = "buy" /\ current.histogram > 0
                \/ side = "sell" /\ current.histogram < 0
             THEN 5 ELSE 0)
  ELSE 70

\* Variant of calculateConfidence that measures the crossover at the
\* previous point.
CalculateConfidenceAtPrevious(strategy, side, current, previous) ==
  IF strategy = "MACD"
  THEN Lesser(70 + Abs(previous.MACD - previous.signal)
                 + (IF \/ side = "buy" /\ current.histogram > 0
                       \/ side = "sell" /\ current.histogram < 0
                    THEN 5 ELSE 0),
              95)
  ELSE 70

\* Variant of calculateConfidence without the histogram bonus.
CalculateConfidenceNoBonus(strategy, side, current, previous) ==
  IF strategy = "MACD"
  THEN Lesser(70 + Abs(current.MACD - current.signal), 95)
  ELSE 70

\* calculateConfidence
CalculateConfidence(strategy, side, current, previous) ==
  IF strategy = "MACD"
  THEN Lesser(70 + Abs(current.MACD - current.signal)
                 + (IF \/ side = "buy" /\ current.histogram > 0
                       \/ side = "sell" /\ current.histogram < 0
                    THEN 5 ELSE 0),
              95)
  ELSE 70

\* analyzeMarket, case 'MACD': the last two results of ti.MACD.
MacdSwitch(previous, current) ==
  IF previous.MACD < previous.signal /\ current.MACD > current.signal
  THEN Trigger("buy", CalculateConfidence("MACD", "buy", current, previous))
  ELSE IF previous.MACD > previous.signal /\ current.MACD < current.signal
  THEN Trigger("sell", CalculateConfidence("MACD", "sell", current, previous))
  ELSE NoTrigger

\* Variant of the RSI case with the bounds 30 and 70 included.
RsiSwitchInclusive(currentRSI) ==
  IF currentRSI <= 30 THEN Trigger("buy", 80 - currentRSI)
  ELSE IF currentRSI >= 70 THEN Trigger("sell", currentRSI - 20)
  ELSE NoTrigger

\* analyzeMarket, case 'RSI': the last result of ti.RSI.
RsiSwitch(currentRSI) ==
  IF currentRSI < 30 THEN Trigger("buy", 80 - currentRSI)
  ELSE IF currentRSI > 70 THEN Trigger("sell", currentRSI - 20)
  ELSE NoTrigger

\* analyzeMarket, case 'BOLLINGER': the latest close and the last result of
\* ti.BollingerBands.
BollingerSwitch(price, current) ==
  IF price < current.lower
  THEN Trigger("buy",
               Lesser(70 + ((current.lower - price) * 100)
                             \div (current.upper - current.lower), 95))
  ELSE IF price > current.upper
  THEN Trigger("sell",
               Lesser(70 + ((price - current.upper) * 100)
                             \div (current.upper - current.lower), 95))
  ELSE NoTrigger

\* analyzeMarket, case 'EMA': the last two results of ti.EMA for the
\* periods 9 and 21.
EmaSwitch(previousShortEMA, previousLongEMA, currentShortEMA, currentLongEMA) ==
  LET confidence ==
        Lesser(70 + (Abs(currentShortEMA - currentLongEMA) * 1000)
                      \div currentLongEMA, 95)
  IN  IF previousShortEMA < previousLongEMA /\ currentShortEMA > currentLongEMA
      THEN Trigger("buy", confidence)
      ELSE IF previousShortEMA > previousLongEMA /\ currentShortEMA < currentLongEMA
      THEN Trigger("sell", confidence)
      ELSE NoTrigger

\* The switch of analyzeMarket over the indicators of the window.
StrategySwitch(strategy, reading) ==
  CASE strategy = "MACD" -> MacdSwitch(reading.previous, reading.current)
    [] strategy = "RSI" -> RsiSwitch(reading.rsi)
    [] strategy = "BOLLINGER" -> BollingerSwitch(reading.close, reading.bands)
    [] strategy = "EMA" ->
         EmaSwitch(reading.shortEMA.previous, reading.longEMA.previous,
                   reading.shortEMA.current, reading.longEMA.current)
    [] OTHER -> NoTrigger

\* One result of ti.MACD.
MacdPoints ==
  [MACD : {-30, -2, 0, 2, 30}, signal : {0, 2}, histogram : {-1, 0, 1}]

\* Lower and upper band around 20 closes that end at 50000: a band of
\* positive width, or all closes equal.
BandChoices ==
  { b \in [lower : {47000, 49000, 50000, 50400},
           upper : {49600, 50000, 51000, 53000}] :
      \/ b.lower < b.upper
      \/ b.lower = 50000 /\ b.upper = 50000 }

\* Values of an EMA of closes around 50000.
EmaValues == {49000, 49900, 50000, 50100, 51000}

\* The windows a strategy can be given.
Readings(strategy) ==
  CASE strategy = "MACD" ->
         { [FlatReading EXCEPT !.previous = p, !.current = c] :
             p \in MacdPoints, c \in MacdPoints }
    [] strategy = "RSI" ->
         { [FlatReading EXCEPT !.rsi = r] : r \in 0..100 }
    [] strategy = "BOLLINGER" ->
         { [FlatReading EXCEPT !.bands = b] : b \in BandChoices }
    [] strategy = "EMA" ->
         { [FlatReading EXCEPT !.shortEMA = [previous |-> ps, current |-> cs],
                               !.longEMA = [previous |-> pl, current |-> cl]] :
             ps \in EmaValues, pl \in EmaValues, cs \in EmaValues, cl \in EmaValues }
    [] OTHER -> { FlatReading }

\* The settings of the tracked pair with strategy s.
StrategySettings(s) == [TrackedSettings EXCEPT !.strategy = s]

\* Account 1 was started with one of the four strategies, its timer fired
\* once below the cap and the account was stopped: the tick is suspended at
\* getHistoricalData.
StrategyInit ==
  \E s \in SupportedStrategies :
    /\ settingsStore = [u \in Users |-> << IF u = 1 THEN StrategySettings(s)
                                                    ELSE DefaultSettings >>]
    /\ openTrades = [u \in Users |-> 0]
    /\ runningIntervals = [u \in Users |-> << >>]
    /\ timers = EmptyBag
    /\ isRunning = TRUE
    /\ confidenceThreshold = InitialConfidenceThreshold
    /\ pairPerformance =
         [s2 \in PairSymbols |-> [successRate |-> 0, volatility |-> 0, lastUpdated |-> 0]]
    /\ ticks = SetToBag({NewTick(NewInterval(1, StrategySettings(s)))})
    /\ startResult = "started"
    /\ capSkipped = [u \in Users |-> FALSE]
    /\ lastThresholdWrite = InitialConfidenceThreshold
    /\ lastCycle = NoCycleYet
    /\ retry = NoRetry
    /\ market = [NoMarket EXCEPT !.strategy = s]
    /\ ledger = NoLedger

\* runTradingCycle resumes after `await this.getHistoricalData(...)` with a
\* window of 100 candles whose indicators are drawn from the windows of the
\* tick's strategy.
CycleRead(t) ==
  /\ t.pc = "candles"
  /\ \E reading \in Readings(t.settings.strategy), v \in VolatilityChoices :
       LET a == StrategySwitch(t.settings.strategy, reading)
       IN  /\ CandlesOutcome(t, 100, a, v, reading.close)
           /\ market' = [market EXCEPT !.windows = @ + 1, !.reading = reading,
                                       !.outcome = a]
  /\ UNCHANGED << settingsStore, openTrades, runningIntervals, timers, isRunning,
                  confidenceThreshold, startResult, lastThresholdWrite,
                  capSkipped, retry, ledger >>

StrategyNext ==
  \/ \E t \in BagToSet(ticks) : CycleRead(t)
  \/ \E t \in BagToSet(ticks) : CycleBalance(t)
  \/ \E t \in BagToSet(ticks) : CycleRecheck(t)
  \/ \E t \in BagToSet(ticks) : CycleOrder(t)
  \/ \E t \in BagToSet(ticks) : CycleCreateTrade(t)
  \/ \E t \in BagToSet(ticks) : CycleSaveBalance(t)

StrategySpec == StrategyInit /\ [][StrategyNext]_vars

\* ------------------------------------------------- MACD over successive windows
\* Results of ti.MACD with MACD below, on and above the signal line
\* (histogram = MACD - signal).
StreamPoints ==
  { [MACD |-> m, signal |-> 0, histogram |-> m] : m \in {-2, 0, 2} }

Sign(x) == IF x < 0 THEN -1 ELSE IF x > 0 THEN 1 ELSE 0

\* Account 1 runs the MACD strategy and its timer is armed; the window
\* before its first firing ended at one of the points.
StreamInit ==
  \E c \in StreamPoints :
    /\ settingsStore = [u \in Users |-> << IF u = 1 THEN StrategySettings("MACD")
                                                    ELSE DefaultSettings >>]
    /\ openTrades = [u \in Users |-> 0]
    /\ runningIntervals =
         [u \in Users |-> IF u = 1
                          THEN << NewInterval(1, StrategySettings("MACD")) >>
                          ELSE << >>]
    /\ timers = SetToBag({NewInterval(1, StrategySettings("MACD"))})
    /\ isRunning = TRUE
    /\ confidenceThreshold = InitialConfidenceThreshold
    /\ pairPerformance =
         [s \in PairSymbols |-> [successRate |-> 0, volatility |-> 0, lastUpdated |-> 0]]
    /\ ticks = EmptyBag
    /\ startResult = "started"
    /\ capSkipped = [u \in Users |-> FALSE]
    /\ lastThresholdWrite = InitialConfidenceThreshold
    /\ lastCycle = NoCycleYet
    /\ retry = NoRetry
    /\ market = [NoMarket EXCEPT !.strategy = "MACD",
                                 !.reading = [FlatReading EXCEPT !.current = c]]
    /\ ledger = NoLedger

\* A firing of the timer after the tick of the firing before it has
\* finished (the period is the candle interval).
StreamFire(tm) ==
  /\ ticks = EmptyBag
  /\ TimerFire(tm)

\* runTradingCycle resumes after `await this.getHistoricalData(...)` with
\* the window that follows the one of the tick before: its previous point is
\* the current point of that window.
CycleReadNext(t) ==
  /\ t.pc = "candles"
  /\ market.windows < MaxWindows
  /\ \E c \in StreamPoints, v \in VolatilityChoices :
       LET before == market.reading.current
           reading == [market.reading EXCEPT !.previous = before, !.current = c]
           a == StrategySwitch(t.settings.strategy, reading)
           passed == before.MACD # before.signal
       IN  /\ CandlesOutcome(t, 100, a, v, reading.close)
           /\ market' =
                [market EXCEPT
                   !.windows = @ + 1, !.reading = reading, !.outcome = a,
                   !.trend = IF passed THEN Sign(before.MACD - before.signal) ELSE @,
                   !.spanFires = (IF passed THEN 0 ELSE @)
                                   + (IF a.side = "none" THEN 0 ELSE 1)]
  /\ UNCHANGED << settingsStore, openTrades, runningIntervals, timers, isRunning,
                  confidenceThreshold, startResult, lastThresholdWrite,
                  capSkipped, retry, ledger >>

StreamNext ==
  \/ \E tm \in BagToSet(timers) : StreamFire(tm)
  \/ \E t \in BagToSet(ticks) : CycleReadNext(t)
  \/ \E t \in BagToSet(ticks) : CycleBalance(t)
  \/ \E t \in BagToSet(ticks) : CycleRecheck(t)
  \/ \E t \in BagToSet(ticks) : CycleOrder(t)
  \/ \E t \in BagToSet(ticks) : CycleCreateTrade(t)
  \/ \E t \in BagToSet(ticks) : CycleSaveBalance(t)

StreamSpec == StreamInit /\ [][StreamNext]_vars

\* The crossover the latest window completes: MACD - signal is above 0 and
\* was below 0 at the latest earlier point where it was not 0 ("buy"), or
\* the reverse ("sell").
Crossover ==
  LET d == market.reading.current.MACD - market.reading.current.signal
  IN  IF d > 0 /\ market.trend < 0 THEN "buy"
      ELSE IF d < 0 /\ market.trend > 0 THEN "sell"
      ELSE "none"

\* ---------------------------------------------------- EMA over a close series
\* Fixed-point unit of the EMA values: thousandths of a price unit.
EmaScale == 1000

\* A strictly increasing series of 60 closes: from start, first in steps of
\* stepA, and from candle switch on in steps of stepB.
RisingSeries(start, stepA, stepB, switch) ==
  [ i \in 1..60 |->
      IF i <= switch THEN start + stepA * (i - 1)
      ELSE start + stepA * (switch - 1) + stepB * (i - switch) ]

RisingSeriesChoices ==
  { RisingSeries(start, stepA, stepB, switch) :
      start \in {100, 200, 500}, stepA \in {1, 5, 20}, stepB \in {1, 5, 20},
      switch \in {10, 20, 30, 40, 50} }

RECURSIVE SumTo(_, _)
SumTo(closes, n) == IF n = 0 THEN 0 ELSE closes[n] + SumTo(closes, n - 1)

\* ti.EMA: the value at candle i (i >= period).  The first value is the
\* simple average of the first period closes; each later one is
\* prev + (close - prev) * 2 / (period + 1).
RECURSIVE EmaAt(_, _, _)
EmaAt(period, closes, i) ==
  IF i <= period
  THEN (SumTo(closes, period) * EmaScale) \div period
  ELSE (2 * closes[i] * EmaScale + (period - 1) * EmaAt(period, closes, i - 1))
         \div (period + 1)

\* The indicators analyzeMarket case 'EMA' computes from the closes.
EmaReading(closes) ==
  [FlatReading EXCEPT
     !.close = closes[Len(closes)],
     !.shortEMA = [previous |-> EmaAt(9, closes, Len(closes) - 1),
                   current  |-> EmaAt(9, closes, Len(closes))],
     !.longEMA  = [previous |-> EmaAt(21, closes, Len(closes) - 1),
                   current  |-> EmaAt(21, closes, Len(closes))]]

\* Account 1 was started with the EMA strategy, its timer fired once below
\* the cap and the account was stopped; getKlines will return 60 candles
\* with a strictly increasing close series.
EmaInit ==
  \E closes \in RisingSeriesChoices :
    /\ settingsStore = [u \in Users |-> << IF u = 1 THEN StrategySettings("EMA")
                                                    ELSE DefaultSettings >>]
    /\ openTrades = [u \in Users |-> 0]
    /\ runningIntervals = [u \in Users |-> << >>]
    /\ timers = EmptyBag
    /\ isRunning = TRUE
    /\ confidenceThreshold = InitialConfidenceThreshold
    /\ pairPerformance =
         [s \in PairSymbols |-> [successRate |-> 0, volatility |-> 0, lastUpdated |-> 0]]
    /\ ticks = SetToBag({NewTick(NewInterval(1, StrategySettings("EMA")))})
    /\ startResult = "started"
    /\ capSkipped = [u \in Users |-> FALSE]
    /\ lastThresholdWrite = InitialConfidenceThreshold
    /\ lastCycle = NoCycleYet
    /\ retry = NoRetry
    /\ market = [NoMarket EXCEPT !.strategy = "EMA", !.closes = closes]
    /\ ledger = NoLedger

\* runTradingCycle resumes after `await this.getHistoricalData(...)` with
\* the candles of the series.
CycleReadSeries(t) ==
  /\ t.pc = "candles"
  /\ \E v \in VolatilityChoices :
       LET reading == EmaReading(market.closes)
           a == StrategySwitch(t.settings.strategy, reading)
       IN  /\ CandlesOutcome(t, Len(market.closes), a, v, reading.close)
           /\ market' = [market EXCEPT !.windows = @ + 1, !.reading = reading,
                                       !.outcome = a]
  /\ UNCHANGED << settingsStore, openTrades, runningIntervals, timers, isRunning,
                  confidenceThreshold, startResult, lastThresholdWrite,
                  capSkipped, retry, ledger >>

EmaNext == \E t \in BagToSet(ticks) : CycleReadSeries(t)

EmaSpec == EmaInit /\ [][EmaNext]_vars

\* ----------------------------------------------------------- position size
\* availableBalance of the account, in USDT.
SizerBalances == {0, 1, 1000, 2500}
\* risk_per_trade of the stored settings, in percent (the column and the
\* settings route accept any decimal).
SizerRisks == {-1, 1, 2, 5}
\* Price of the signal, in USDT.
SizerPrices == {3000, 50000, 60000, 70000}

\* The settings of the tracked pair with risk_per_trade r.
SizerSettings(r) == [TrackedSettings EXCEPT !.riskPerTrade = r]

\* A tick of account 1 whose signal has cleared the gate and whose balance
\* read has returned: it is suspended at the second hasReachedMaxTrades.
SizerTick(b, r, p) ==
  [ NewTick(NewInterval(1, SizerSettings(r))) EXCEPT
      !.pc = "recheck", !.candles = 100,
      !.signal = [symbol |-> "BTCUSDT", side |-> "buy", price |-> p,
                  strategy |-> "RSI", confidence |-> 60],
      !.volatility = 2, !.balance = b ]

\* The threshold was set to 60, account 1 was started with its settings,
\* its timer fired once and the account was stopped.
SizerInit ==
  \E b \in SizerBalances, r \in SizerRisks, p \in SizerPrices :
    /\ settingsStore = [u \in Users |-> << IF u = 1 THEN SizerSettings(r)
                                                    ELSE DefaultSettings >>]
    /\ openTrades = [u \in Users |-> 0]
    /\ runningIntervals = [u \in Users |-> << >>]
    /\ timers = EmptyBag
    /\ isRunning = TRUE
    /\ confidenceThreshold = 60
    /\ pairPerformance =
         [s \in PairSymbols |-> [successRate |-> 0, volatility |-> 0, lastUpdated |-> 0]]
    /\ ticks = SetToBag({SizerTick(b, r, p)})
    /\ startResult = "started"
    /\ capSkipped = [u \in Users |-> FALSE]
    /\ lastThresholdWrite = 60
    /\ lastCycle = NoCycleYet
    /\ retry = NoRetry
    /\ market = NoMarket
  /\ ledger = NoLedger

SizerNext ==
  \/ \E t \in BagToSet(ticks) : CycleRecheck(t)
  \/ \E t \in BagToSet(ticks) : CycleOrder(t)
  \/ \E t \in BagToSet(ticks) : CycleCreateTrade(t)
  \/ \E t \in BagToSet(ticks) : CycleSaveBalance(t)

SizerSpec == SizerInit /\ [][SizerNext]_vars

\* The awaits of runTradingCycle behind the call of executeTrade.
Sized == {"order", "createTrade", "saveBalance"}

\* ------------------------------------------------------------ pair ranking
\* Pairs whose records change before getTopTradingPairs is asked: the pair
\* of the highest weight and a pair that one successful update lifts to
\* the same score (0.15 + 0.5 * 0.3 = 0.3).
RankSymbols == {"BTCUSDT", "XRPUSDT"}

\* Values of the count argument of getTopTradingPairs.
RankCounts == 0..(Len(tradingPairs) + 1)

RankNext ==
  \E symbol \in RankSymbols, tradeSuccess \in BOOLEAN,
     volatility \in PerfVolatilities :
       PerfUpdate(symbol, tradeSuccess, volatility)

RankSpec == Init /\ [][RankNext]_vars

\* Position of a symbol in tradingPairs.
PairIndex(symbol) ==
  CHOOSE i \in 1..Len(tradingPairs) : tradingPairs[i].symbol = symbol

\* ----------------------------------------------------- progress of a tick
\* Accounts were started, their timers fired once below the cap and the
\* accounts were stopped: the ticks of one or of both accounts are in flight
\* and no timer is armed.
TickLiveInit ==
  /\ settingsStore = [u \in Users |-> << CycleSettings[u] >>]
  /\ openTrades = [u \in Users |-> 0]
  /\ runningIntervals = [u \in Users |-> << >>]
  /\ timers = EmptyBag
  /\ isRunning = TRUE
  /\ confidenceThreshold = InitialConfidenceThreshold
  /\ pairPerformance =
       [s \in PairSymbols |-> [successRate |-> 0, volatility |-> 0, lastUpdated |-> 0]]
  /\ \E S \in SUBSET Users :
       /\ S # {}
       /\ ticks = SetToBag({FirstTick(u) : u \in S})
  /\ startResult = "started"
  /\ capSkipped = [u \in Users |-> FALSE]
  /\ lastThresholdWrite = InitialConfidenceThreshold
  /\ lastCycle = NoCycleYet
  /\ retry = NoRetry
  /\ market = NoMarket
  /\ ledger = NoLedger

\* The continuations that follow an answer of the exchange.
GatewayAnswers ==
  \/ \E t \in BagToSet(ticks) : CycleCandles(t)
  \/ \E t \in BagToSet(ticks) : CycleBalance(t)
  \/ \E t \in BagToSet(ticks) : CycleOrder(t)

\* The continuations that follow an answer of the storage.
StorageAnswers ==
  \/ \E t \in BagToSet(ticks) : CycleRecheck(t)
  \/ \E t \in BagToSet(ticks) : CycleCreateTrade(t)
  \/ \E t \in BagToSet(ticks) : CycleSaveBalance(t)

TickLiveNext ==
  \/ \E threshold \in ThresholdInputs : SetConfidenceThreshold(threshold)
  \/ GatewayAnswers
  \/ StorageAnswers

\* The storage answers every query, and the event loop runs the
\* continuation of a settled promise.  Nothing in getKlines,
\* getAccountBalance, executeTrade or the construction of the client bounds
\* the time an exchange call may stay pending, so no step is promised for a
\* tick suspended at one.
TickLiveSpec ==
  TickLiveInit /\ [][TickLiveNext]_vars /\ WF_vars(StorageAnswers)

\* Order of the awaits of runTradingCycle.
PcRank(pc) ==
  CASE pc = "candles" -> 1
    [] pc = "balance" -> 2
    [] pc = "recheck" -> 3
    [] pc = "order" -> 4
    [] pc = "createTrade" -> 5
    [] pc = "saveBalance" -> 6

\* ------------------------------------------- two accounts on the same pair
\* Both accounts trade the tracked pair with a supported strategy; each was
\* started, its timer fired once below the cap, and it was stopped: the two
\* ticks are in flight and interleave at their awaits.
SharedPairInit ==
  /\ settingsStore = [u \in Users |-> << TrackedSettings >>]
  /\ openTrades = [u \in Users |-> 0]
  /\ runningIntervals = [u \in Users |-> << >>]
  /\ timers = EmptyBag
  /\ isRunning = TRUE
  /\ confidenceThreshold = InitialConfidenceThreshold
  /\ pairPerformance =
       [s \in PairSymbols |-> [successRate |-> 0, volatility |-> 0, lastUpdated |-> 0]]
  /\ ticks = SetToBag({NewTick(NewInterval(u, TrackedSettings)) : u \in Users})
  /\ startResult = "started"
  /\ capSkipped = [u \in Users |-> FALSE]
  /\ lastThresholdWrite = InitialConfidenceThreshold
  /\ lastCycle = NoCycleYet
  /\ retry = NoRetry
  /\ market = NoMarket
  /\ ledger = NoLedger

SharedPairSpec == SharedPairInit /\ [][TickLiveNext]_vars

\* ------------------------------------------------------------- the ledger
\* risk_per_trade of the first account, in percent.
LedgerRisks == {1, 5}

\* Settings of the accounts of LedgerSpec: both trade one symbol with a
\* supported strategy, the first the tracked pair BTCUSDT on 15m candles,
\* the second SOLUSDT on 1h candles.
LedgerSettings(u, r) ==
  IF u = 1 THEN [TrackedSettings EXCEPT !.riskPerTrade = r]
  ELSE [symbol |-> "SOLUSDT", timeframe |-> "1h", strategy |-> "RSI",
        riskPerTrade |-> 2, enabledTrading |-> TRUE]

\* Both accounts were started, their timers fired once below the cap and
\* the accounts were stopped: the two ticks are in flight; the threshold
\* was set to 60; no order, trade or balance snapshot exists yet.
LedgerInit ==
  \E r \in LedgerRisks :
    /\ settingsStore = [u \in Users |-> << LedgerSettings(u, r) >>]
    /\ openTrades = [u \in Users |-> 0]
    /\ runningIntervals = [u \in Users |-> << >>]
    /\ timers = EmptyBag
    /\ isRunning = TRUE
    /\ confidenceThreshold = 60
    /\ pairPerformance =
         [s \in PairSymbols |-> [successRate |-> 0, volatility |-> 0, lastUpdated |-> 0]]
    /\ ticks = SetToBag({NewTick(NewInterval(u, LedgerSettings(u, r))) : u \in Users})
    /\ startResult = "started"
    /\ capSkipped = [u \in Users |-> FALSE]
    /\ lastThresholdWrite = 60
    /\ lastCycle = NoCycleYet
    /\ retry = NoRetry
    /\ market = NoMarket
    /\ ledger = EmptyLedger

LedgerNext ==
  \/ GatewayAnswers
  \/ StorageAnswers

LedgerSpec == LedgerInit /\ [][LedgerNext]_vars

\* The records k successive calls of updatePairPerformance can leave in
\* place of the constructor's record.
RECURSIVE SequentialRecords(_)
SequentialRecords(k) ==
  IF k = 0
  THEN { [successRate |-> 0, volatility |-> 0, lastUpdated |-> 0] }
  ELSE { UpdatePairPerformance([x \in {"p"} |-> r], "p", b, v)["p"] :
           r \in SequentialRecords(k - 1), b \in BOOLEAN, v \in VolatilityChoices }

\* ------------------------------------------------------------------ claims
\* C1: in every reachable state the number of OPEN trades of an account is
\* at most maxConcurrentTrades.
C1_OpenTradesWithinCap ==
  \A u \in Users : openTrades[u] <= maxConcurrentTrades

\* C2: ticks are serialized per account: at any instant at most one tick
\* body of an account is executing.
C2_TicksSerialized ==
  \A u \in Users : TicksOf(ticks, u) <= 1

\* C3: after any sequence of start and stop calls an account has at most one
\* armed recurring timer (a start on a running account arms nothing).
C3_OneArmedTimer ==
  \A u \in Users : TimersOf(timers, u) <= 1

\* C4: while an account is stopped (its stop has returned and no start has
\* registered a timer since: the registry has no entry for it), no tick of
\* the account begins.
C4_NoTickAfterStop ==
  [][\A u \in Users : runningIntervals[u] = << >> => ~ TickBegins(u)]_vars

\* C5: a tick begins (fetches candles) only if the stored settings of its
\* account have trading enabled at that moment.
C5_DisabledTickSkipped ==
  [][\A u \in Users :
        TickBegins(u) =>
          settingsStore[u] # << >> /\ settingsStore[u][1].enabledTrading]_vars

\* C6: a tick that begins runs with the symbol, strategy and riskPerTrade
\* stored for its account at that moment.
C6_TickUsesStoredSettings ==
  [][\A u \in Users :
        TickBegins(u) =>
          \E t \in BagToSet(ticks') :
            /\ t.user = u
            /\ Arrives(t)
            /\ settingsStore[u] # << >>
            /\ t.settings.symbol = settingsStore[u][1].symbol
            /\ t.settings.strategy = settingsStore[u][1].strategy
            /\ t.settings.riskPerTrade = settingsStore[u][1].riskPerTrade]_vars

\* C7: a start of an account without stored settings reports failure, arms
\* no timer and leaves the registry of running timers unchanged.
C7_StartWithoutSettingsFails ==
  [][\A u \in Users :
        (settingsStore[u] = << >> /\ StartTradingForUser(u)) =>
          /\ startResult' = "not started"
          /\ timers' = timers
          /\ runningIntervals' = runningIntervals
          /\ isRunning' = isRunning]_vars

\* C7 case: a start was called for an account without settings, and no
\* timer exists for it.
C7_Witness ==
  \E u \in Users :
    /\ settingsStore[u] = << >>
    /\ startResult = "not started"
    /\ runningIntervals[u] = << >>
    /\ TimersOf(timers, u) = 0

\* C8: while an account has maxConcurrentTrades or more OPEN trades, a timer
\* firing for it starts no tick body (so no candle fetch and no order), and
\* the firing leaves the timers and the registry as they are.
C8_TickAtCapSkips ==
  [][\A u \in Users :
        openTrades[u] >= maxConcurrentTrades =>
          /\ ~ TickBegins(u)
          /\ \A tm \in BagToSet(timers) :
               (tm.user = u /\ TimerFire(tm)) =>
                 /\ ticks' = ticks
                 /\ timers' = timers
                 /\ runningIntervals' = runningIntervals]_vars

\* C8 case: a firing was skipped at the cap, and the account's timer is
\* still armed and registered.
C8_Witness ==
  \E u \in Users :
    /\ capSkipped[u]
    /\ openTrades[u] >= maxConcurrentTrades
    /\ runningIntervals[u] # << >>
    /\ TimersOf(timers, u) >= 1

\* C9: a cycle reaches the balance fetch only with a signal whose confidence
\* is >= the confidence threshold of that moment, and reaches each later
\* await (cap recheck, order submission, trade record, balance snapshot)
\* only from the await before it, with that same signal.
C9_OrderOnlyThroughGate ==
  [][\A t \in BagToSet(ticks') :
        (t.pc \in PostGate /\ Arrives(t)) =>
          /\ t.signal # NoSignal
          /\ t.pc = "balance" => t.signal.confidence >= confidenceThreshold
          /\ t.pc # "balance" =>
               \E s \in BagToSet(ticks) :
                 /\ s.user = t.user
                 /\ s.signal = t.signal
                 /\ s.pc = CASE t.pc = "recheck"     -> "balance"
                             [] t.pc = "order"       -> "recheck"
                             [] t.pc = "createTrade" -> "order"
                             [] t.pc = "saveBalance" -> "createTrade"]_vars

\* C9 case: an order was submitted for a signal that passed the gate.
C9_Witness ==
  \E t \in BagToSet(ticks) :
    /\ t.pc = "createTrade"
    /\ t.signal # NoSignal
    /\ t.signal.confidence >= 60

\* C10: the threshold the gate reads is the latest accepted argument of
\* setConfidenceThreshold: a cycle passes the gate only with a confidence
\* >= that argument, and the write touches no timer, registry entry or tick.
C10_ThresholdWriteTakesEffect ==
  [][/\ confidenceThreshold' = lastThresholdWrite'
     /\ lastThresholdWrite' # lastThresholdWrite =>
          /\ timers' = timers
          /\ runningIntervals' = runningIntervals
          /\ ticks' = ticks
     /\ \A t \in BagToSet(ticks') :
          (t.pc = "balance" /\ Arrives(t)) =>
            t.signal.confidence >= lastThresholdWrite]_vars

\* C10 case: a cycle of a registered timer passed the gate with confidence
\* 60, which only the threshold lowered from 70 to 60 lets through.
C10_Witness ==
  /\ lastThresholdWrite = 60
  /\ confidenceThreshold = 60
  /\ \E t \in BagToSet(ticks) :
       /\ t.pc = "balance"
       /\ t.signal.confidence = 60
       /\ runningIntervals[t.user] # << >>

\* C11: the confidence threshold is in [0, 100] in every state; a
\* setConfidenceThreshold call with an argument in [0, 100] makes
\* getConfidenceThreshold return that argument, and a call with an argument
\* outside [0, 100] leaves the threshold as it was.
C11_ThresholdInRange ==
  /\ [](confidenceThreshold >= 0 /\ confidenceThreshold <= 100)
  /\ [][\A x \in ThresholdArgs :
          SetConfidenceThreshold(x) =>
            GetConfidenceThreshold' =
              IF x >= 0 /\ x <= 100 THEN x ELSE GetConfidenceThreshold]_vars

\* C11 case: a call with the upper end of the range was accepted.
C11_Witness ==
  /\ GetConfidenceThreshold = 100
  /\ lastThresholdWrite = 100

\* C12: every trading cycle in flight, those of ENSEMBLE and AUTO accounts
\* included, hands the signal engine one of the concrete strategies MACD,
\* RSI, BOLLINGER, EMA (the strategy argument of runTradingCycle is the
\* strategy of the tick's settings).
C12_ConcreteStrategyPerPair ==
  \A t \in BagToSet(ticks) : t.settings.strategy \in SupportedStrategies

C14_InsufficientDataSkipped ==
  /\ [](\A t \in BagToSet(ticks) : t.pc \in PostGate => t.candles >= MinCandles)
  /\ []((lastCycle.candleCount > 0 /\ lastCycle.candleCount < MinCandles) =>
          (/\ lastCycle.cause = "Not enough data for analysis"
           /\ lastCycle.endedAt = "candles"))
  /\ [][(/\ lastCycle' # lastCycle
          /\ lastCycle'.candleCount > 0
          /\ lastCycle'.candleCount < MinCandles) =>
            /\ openTrades' = openTrades
            /\ pairPerformance' = pairPerformance
            /\ timers' = timers
            /\ runningIntervals' = runningIntervals
            /\ \A t \in BagToSet(ticks') : Arrives(t) => t.pc = "candles"]_vars

\* C14 case: a cycle with a supported strategy received 49 candles and was
\* skipped, and the account's timer is still armed.
C14_Witness ==
  /\ lastCycle.cause = "Not enough data for analysis"
  /\ lastCycle.candleCount = 49
  /\ lastCycle.strategy \in SupportedStrategies
  /\ runningIntervals[lastCycle.user] # << >>
  /\ TimersOf(timers, lastCycle.user) = 1

\* Causes of a cycle's end that are failures of an external call or errors
\* thrown by the cycle.
FailureCauses ==
  {"rejected", "orderFailed", "Not enough data for analysis", "Unsupported strategy"}

\* C15: a step in which a cycle of account a ends by a failure leaves every
\* timer armed and the registry as it is, removes at most the failing tick
\* of a, and leaves the ticks, the open trades and the cap history of every
\* other account as they are.
C15_FailuresIsolated ==
  [][\A a \in Users :
        (/\ lastCycle' # lastCycle
         /\ lastCycle'.user = a
         /\ lastCycle'.cause \in FailureCauses) =>
          /\ timers' = timers
          /\ runningIntervals' = runningIntervals
          /\ TicksOf(ticks', a) >= TicksOf(ticks, a) - 1
          /\ \A b \in Users \ {a} :
               /\ BagOf(ticks', b) = BagOf(ticks, b)
               /\ openTrades'[b] = openTrades[b]
               /\ capSkipped'[b] = capSkipped[b]]_vars

\* C15 case: an external call of a cycle was rejected while a tick of the
\* other account was in flight; that tick is still in flight and both
\* timers are armed.
C15_Witness ==
  /\ lastCycle.cause = "rejected"
  /\ \A u \in Users : TimersOf(timers, u) = 1 /\ runningIntervals[u] # << >>
  /\ \E b \in Users \ {lastCycle.user} : TicksOf(ticks, b) > 0

\* C16: when the order submission of a cycle fails (the cycle ends where it
\* awaits bitgetService.executeTrade), the pair's record gets a failure
\* update (successRate := 0.7 * old, volatility smoothed, lastUpdated
\* advanced), no trade is recorded, the cycle does not reach the balance
\* snapshot, and the timers and the registry stay as they are.
C16_SubmissionFailureRecorded ==
  [][\A t \in BagToSet(ticks) :
        (t.pc = "order" /\ ticks' = Replace(t, AfterCycle(t))) =>
          /\ lastCycle'.cause = "orderFailed"
          /\ openTrades' = openTrades
          /\ timers' = timers
          /\ runningIntervals' = runningIntervals
          /\ \A s \in PairSymbols :
               IF s = Head(t.symbols)
               THEN /\ 10 * pairPerformance'[s].successRate =
                         7 * pairPerformance[s].successRate
                    /\ 10 * pairPerformance'[s].volatility =
                         8 * pairPerformance[s].volatility
                           + 2 * t.volatility * PerfScale
                    /\ pairPerformance'[s].lastUpdated =
                         pairPerformance[s].lastUpdated + 1
               ELSE pairPerformance'[s] = pairPerformance[s]]_vars

\* C16 case: the only update of the pair so far is the failure update of a
\* cycle whose submission failed; no trade was recorded and the account's
\* timer is armed.
C16_Witness ==
  /\ lastCycle.cause = "orderFailed"
  /\ lastCycle.symbol = "BTCUSDT"
  /\ pairPerformance["BTCUSDT"].lastUpdated = 1
  /\ pairPerformance["BTCUSDT"].successRate = 0
  /\ pairPerformance["BTCUSDT"].volatility > 0
  /\ openTrades[lastCycle.user] = 0
  /\ TimersOf(timers, lastCycle.user) = 1

\* C17: the gateway calls placeOrder at most maxRetries (3) times for one
\* signal and stops at the first attempt that succeeds; it throws exactly
\* when maxRetries attempts in a row have failed, and then the cycle ends as
\* a failed submission and never reaches createTrade; the loop's result is
\* the one the folded retry loop computes.  The awaits of one cycle are
\* passed in order, each at most once: the candle read and the balance read
\* are never repeated.
C17_BoundedSubmission ==
  /\ [](/\ retry.attempt \in 0..maxRetries
        /\ retry.placed <= maxRetries
        /\ retry.placed <= retry.attempt + 1
        /\ \A i \in 1..retry.attempt : retry.outcomes[i] # "ok"
        /\ retry.status = "running" => retry.attempt < maxRetries
        /\ retry.status = "returned" => retry.outcomes[retry.attempt + 1] = "ok"
        /\ retry.status = "thrown" => retry.attempt = maxRetries
        /\ retry.status # "running" =>
             GatewayExecuteTrade(retry.outcomes, 0) =
               [ok |-> retry.status = "returned",
                attempts |-> IF retry.status = "returned"
                             THEN retry.attempt + 1 ELSE retry.attempt]
        /\ \A t \in BagToSet(ticks) :
             t.pc \in {"createTrade", "saveBalance"} => retry.status = "returned"
        /\ lastCycle.cause = "orderFailed" => retry.status = "thrown"
        /\ (retry.status = "thrown" /\ ticks = EmptyBag) =>
             lastCycle.cause = "orderFailed")
  /\ [][/\ retry.status # "running" => retry' = retry
        /\ ticks' # ticks =>
             \A t \in BagToSet(ticks) : \A t2 \in BagToSet(ticks') :
                PcRank(t2.pc) > PcRank(t.pc)]_vars

\* C17 case: three attempts in a row failed, one of them before placeOrder
\* was called, and the cycle has ended as a failed submission.
C17_Witness ==
  /\ retry.status = "thrown"
  /\ retry.attempt = maxRetries
  /\ retry.placed = 2
  /\ lastCycle.cause = "orderFailed"
  /\ ticks = EmptyBag

\* C18: every tick that is in flight eventually finishes, whether or not
\* the exchange answers the calls the tick is suspended at.
C18_TickEventuallyFinishes ==
  (ticks # EmptyBag) ~> (ticks = EmptyBag)

\* The paths through a cycle on which the pair is evaluated: trade executed,
\* submission failed, no signal, signal below the threshold, cap reached at
\* the re-check, position size 0.
EvaluatedPaths ==
  {"executed", "orderFailed", "noSignal", "belowThreshold", "capReached", "zeroSize"}

\* C19: a cycle of a tracked pair that returns on one of the evaluated
\* paths has applied updatePairPerformance to the pair exactly once: the
\* step in which it returns advances the pair's record by one update, and
\* leaves the other records alone.
C19_UpdateOncePerCycle ==
  [][\A t \in BagToSet(ticks) :
        ( /\ ticks' = Replace(t, AfterCycle(t))
          /\ lastCycle' = CycleEnd(t, lastCycle'.cause, lastCycle'.candleCount)
          /\ lastCycle'.cause \in EvaluatedPaths
          /\ Head(t.symbols) \in PairSymbols ) =>
        \A s \in PairSymbols :
           pairPerformance'[s].lastUpdated =
             pairPerformance[s].lastUpdated + (IF s = Head(t.symbols) THEN 1 ELSE 0)]_vars

\* C20: from the constructor's records (successRate 0, volatility 0), under
\* any sequence of updates with non-negative volatility arguments, every
\* pair's successRate stays in [0, 1] and its volatility stays >= 0; an
\* update of a configured pair gives successRate = 0.7 * old + 0.3 * (1 or 0)
\* and volatility = 0.8 * old + 0.2 * new and leaves the other pairs alone;
\* an update of a symbol that is not configured changes nothing.
C20_SmoothedUpdates ==
  /\ [](/\ DOMAIN pairPerformance = PairSymbols
        /\ \A s \in PairSymbols :
             /\ pairPerformance[s].successRate \in 0..PerfScale
             /\ pairPerformance[s].volatility >= 0
        /\ \A b \in BOOLEAN, v \in PerfVolatilities :
             /\ UpdatePairPerformance(pairPerformance, "SOLUSDT", b, v)
                  = pairPerformance
             /\ \A s \in PairSymbols :
                  PerfRoom(pairPerformance, s) =>
                    LET new == UpdatePairPerformance(pairPerformance, s, b, v)
                    IN  /\ 10 * new[s].successRate =
                             7 * pairPerformance[s].successRate
                               + 3 * (IF b THEN PerfScale ELSE 0)
                        /\ 10 * new[s].volatility =
                             8 * pairPerformance[s].volatility + 2 * v * PerfScale
                        /\ \A o \in PairSymbols \ {s} :
                             new[o] = pairPerformance[o])
  /\ [][\A s \in PairSymbols :
          pairPerformance'[s] # pairPerformance[s] =>
            /\ \E b \in BOOLEAN, v \in PerfVolatilities :
                 /\ 10 * pairPerformance'[s].successRate =
                      7 * pairPerformance[s].successRate
                        + 3 * (IF b THEN PerfScale ELSE 0)
                 /\ 10 * pairPerformance'[s].volatility =
                      8 * pairPerformance[s].volatility + 2 * v * PerfScale
            /\ \A o \in PairSymbols \ {s} :
                 pairPerformance'[o] = pairPerformance[o]]_vars

\* C20 case: a pair updated twice, first with a success and then with a
\* failure (successRate 0.7 * 0.3 = 0.21), both with volatility 2
\* (0.8 * 0.4 + 0.4 = 0.72).
C20_Witness ==
  /\ pairPerformance["ETHUSDT"].lastUpdated = 2
  /\ 100 * pairPerformance["ETHUSDT"].successRate = 21 * PerfScale
  /\ 100 * pairPerformance["ETHUSDT"].volatility = 72 * PerfScale

\* C21: with the ticks of two accounts updating the same pair, every write
\* of the pair's record is the smoothing of the value the record has at the
\* moment of the write (no write is computed from an earlier read), it
\* counts as one update, and the record is always the result of applying
\* its updates one after another.
C21_UpdatesAtomic ==
  /\ [](\A s \in PairSymbols :
          pairPerformance[s] \in SequentialRecords(pairPerformance[s].lastUpdated))
  /\ [][\A s \in PairSymbols :
          pairPerformance'[s] # pairPerformance[s] =>
            /\ pairPerformance'[s].lastUpdated = pairPerformance[s].lastUpdated + 1
            /\ \E b \in BOOLEAN, v \in VolatilityChoices :
                 /\ 10 * pairPerformance'[s].successRate =
                      7 * pairPerformance[s].successRate
                        + 3 * (IF b THEN PerfScale ELSE 0)
                 /\ 10 * pairPerformance'[s].volatility =
                      8 * pairPerformance[s].volatility + 2 * v * PerfScale]_vars

\* C21 case: both ticks have finished, each after updating BTCUSDT while
\* the other was in flight behind the gate: a failure applied on top of a
\* success, or a success on top of a failure.
C21_Witness ==
  /\ ticks = EmptyBag
  /\ pairPerformance["BTCUSDT"].lastUpdated = 2
  /\ 100 * pairPerformance["BTCUSDT"].successRate \in {21 * PerfScale, 30 * PerfScale}

\* Score of a configured symbol, weight + 0.3 * volatility +
\* 0.5 * successRate, times 1000 * PerfScale.
ScoreOf(symbol) ==
  tradingPairs[PairIndex(symbol)].weight * PerfScale
    + 300 * pairPerformance[symbol].volatility
    + 500 * pairPerformance[symbol].successRate

\* Symbol a goes before symbol b: higher score, or equal score and earlier
\* in the configuration.
RankedBefore(a, b) ==
  \/ ScoreOf(a) > ScoreOf(b)
  \/ ScoreOf(a) = ScoreOf(b) /\ PairIndex(a) < PairIndex(b)

\* C22: getTopTradingPairs(count) returns min(count, number of configured
\* pairs) distinct configured symbols, in descending order of score with
\* equal scores in configuration order, and every symbol it leaves out
\* comes after every symbol it returns.
C22_RankingSorted ==
  \A count \in RankCounts :
    LET r == GetTopTradingPairs(pairPerformance, count)
        returned == {r[k] : k \in 1..Len(r)}
    IN  /\ Len(r) = IF count < Len(tradingPairs) THEN count ELSE Len(tradingPairs)
        /\ returned \subseteq PairSymbols
        /\ Cardinality(returned) = Len(r)
        /\ \A k \in 1..Len(r) : \A l \in 1..Len(r) :
             k < l => RankedBefore(r[k], r[l])
        /\ \A a \in returned : \A b \in PairSymbols \ returned : RankedBefore(a, b)

\* C22 case: XRPUSDT has been lifted to the score of BTCUSDT, and the
\* ranking puts BTCUSDT, the earlier of the two, first.
C22_Witness ==
  /\ ScoreOf("XRPUSDT") = ScoreOf("BTCUSDT")
  /\ pairPerformance["XRPUSDT"].lastUpdated > 0
  /\ GetTopTradingPairs(pairPerformance, 3) = << "BTCUSDT", "XRPUSDT", "ETHUSDT" >>

\* C23: the size of an order is the risk amount divided by the price,
\* rounded down to 5 decimal places: size * price never exceeds
\* availableBalance * riskPct / 100 (both sides in units of 0.00001 USDT).
C23_SizeWithinRisk ==
  \A t \in BagToSet(ticks) :
    t.pc \in Sized =>
      t.size * t.signal.price <= t.balance * t.settings.riskPerTrade * 1000

\* C24: for the positive balance and the price of a tick, the position size
\* does not decrease when riskPct grows, also where it changes from 0 to a
\* size; the size an order is submitted with is the size computed for the
\* tick's own riskPct, so no smaller riskPct gives a larger one.
C24_SizeMonotoneInRisk ==
  \A t \in BagToSet(ticks) :
    /\ (t.pc = "recheck" /\ t.balance > 0) =>
         \A r1 \in SizerRisks : \A r2 \in SizerRisks :
            r1 <= r2 =>
              CalculatePositionSize(t.balance, r1, t.signal.price)
                <= CalculatePositionSize(t.balance, r2, t.signal.price)
    /\ t.pc \in Sized =>
         /\ t.size = CalculatePositionSize(t.balance, t.settings.riskPerTrade,
                                           t.signal.price)
         /\ \A r1 \in SizerRisks :
              r1 <= t.settings.riskPerTrade =>
                CalculatePositionSize(t.balance, r1, t.signal.price) <= t.size

\* C24 case: an order is about to be submitted with a size that a smaller
\* positive riskPct would have turned into 0.
C24_Witness ==
  \E t \in BagToSet(ticks) :
    /\ t.pc = "order"
    /\ t.size > 0
    /\ \E r1 \in SizerRisks :
         /\ r1 > 0
         /\ r1 < t.settings.riskPerTrade
         /\ CalculatePositionSize(t.balance, r1, t.signal.price) = 0

\* C25: calculatePositionSize never returns a negative size, for a negative
\* riskPct either: the size is 0 or at least one unit of 0.00001; a tick
\* calls executeTrade only with the size computed for it and only when
\* that size is > 0, so every order carries a size of at least 0.00001.
C25_SizeZeroOrTradable ==
  /\ [](\A t \in BagToSet(ticks) :
          /\ t.pc = "recheck" =>
               LET size == CalculatePositionSize(t.balance, t.settings.riskPerTrade,
                                                 t.signal.price)
               IN  size = 0 \/ size >= 1
          /\ t.pc \in Sized => t.size >= 1)
  /\ [][\A t \in BagToSet(ticks) : \A t2 \in BagToSet(ticks') :
          (t.pc = "recheck" /\ t2.pc = "order") =>
            /\ t2.size = CalculatePositionSize(t.balance, t.settings.riskPerTrade,
                                               t.signal.price)
            /\ t2.size >= 1]_vars

\* C25 case: the stored riskPct is negative, the size came out as 0 and the
\* cycle returned without an order.
C25_Witness ==
  /\ settingsStore[1][1].riskPerTrade < 0
  /\ lastCycle.cause = "zeroSize"
  /\ lastCycle.user = 1
  /\ ticks = EmptyBag
  /\ openTrades[1] = 0

\* C26: every signal that one of the four strategies emits, for any window
\* its trigger condition admits, carries a confidence in [0, 100] and at
\* most 95, and so does every signal a tick carries behind the gate.
C26_ConfidenceWithinRange ==
  /\ (market.windows > 0 /\ market.outcome.side # "none") =>
       /\ market.strategy \in SupportedStrategies
       /\ market.outcome = StrategySwitch(market.strategy, market.reading)
       /\ market.outcome.confidence \in 0..95
  /\ \A t \in BagToSet(ticks) :
       t.signal # NoSignal => t.signal.confidence \in 0..95

\* C26 case: a MACD crossover 3 price units wide (70 + 30 + 5 before the
\* cap) is emitted with confidence 95 and is carried behind the gate.
C26_Witness ==
  /\ market.strategy = "MACD"
  /\ market.outcome.side = "buy"
  /\ market.reading.current.MACD - market.reading.current.signal = 30
  /\ market.reading.current.histogram > 0
  /\ \E t \in BagToSet(ticks) : t.pc = "balance" /\ t.signal.confidence = 95

\* C27: on the latest RSI(14) the RSI strategy emits buy with confidence
\* 80 - RSI when RSI < 30, sell with confidence RSI - 20 when RSI > 70 and
\* nothing when 30 <= RSI <= 70; RSI = 25 gives buy with confidence 55.
C27_RsiSignal ==
  (market.strategy = "RSI" /\ market.windows > 0) =>
    LET rsi == market.reading.rsi
    IN  /\ rsi < 30 => market.outcome = [side |-> "buy", confidence |-> 80 - rsi]
        /\ rsi > 70 => market.outcome = [side |-> "sell", confidence |-> rsi - 20]
        /\ (rsi >= 30 /\ rsi <= 70) => market.outcome.side = "none"
        /\ rsi = 25 => market.outcome = [side |-> "buy", confidence |-> 55]
        /\ \A t \in BagToSet(ticks) :
             t.signal # NoSignal =>
               /\ t.signal.side = market.outcome.side
               /\ t.signal.confidence = market.outcome.confidence

\* C27 case: the window's RSI is 25, the strategy emitted buy with
\* confidence 55, and the cycle ended at the gate (threshold 70).
C27_Witness ==
  /\ market.strategy = "RSI"
  /\ market.reading.rsi = 25
  /\ market.outcome = [side |-> "buy", confidence |-> 55]
  /\ lastCycle.cause = "belowThreshold"

\* C29: the confidence of a MACD signal is min(95, 70 + 10 * |MACD - signal|
\* + bonus) with MACD and signal of the current point, the bonus being 5
\* when the current histogram is positive for a buy or negative for a sell,
\* and 0 otherwise.
C29_MacdConfidence ==
  (market.strategy = "MACD" /\ market.windows > 0 /\ market.outcome.side # "none") =>
    LET current == market.reading.current
        side == market.outcome.side
        bonus == IF side = "buy" /\ current.histogram > 0 THEN 5
                 ELSE IF side = "sell" /\ current.histogram < 0 THEN 5
                 ELSE 0
        stated == 70 + Abs(current.MACD - current.signal) + bonus
    IN  market.outcome.confidence = IF stated > 95 THEN 95 ELSE stated

\* C29 case: a sell on a crossover 0.2 wide at the current point and 2.8
\* wide at the previous one, with a histogram that does not agree with the
\* direction: confidence 72.
C29_Witness ==
  /\ market.strategy = "MACD"
  /\ market.outcome = [side |-> "sell", confidence |-> 72]
  /\ market.reading.current.MACD - market.reading.current.signal = -2
  /\ market.reading.previous.MACD - market.reading.previous.signal = 28
  /\ market.reading.current.histogram >= 0

\* C28: over the successive windows of an account, every crossover of
\* MACD - signal, from below 0 to above 0 or the reverse, with or without
\* points where MACD equals signal in between, has had exactly one signal
\* when it completes, and a signal is emitted only by a window that
\* completes a crossover of its direction.
C28_MacdFiresOncePerCrossover ==
  (market.strategy = "MACD" /\ market.windows > 0) =>
    /\ Crossover # "none" => market.spanFires = 1
    /\ market.outcome.side # "none" => market.outcome.side = Crossover

\* C30: for a strictly increasing series of 60 closes the EMA strategy
\* emits a buy signal with a confidence between 70 and 95.
C30_RisingSeriesBuys ==
  (market.strategy = "EMA" /\ market.windows > 0) =>
    /\ market.outcome.side = "buy"
    /\ market.outcome.confidence \in 70..95

\* The calls of executeTrade for account u that the gateway answered with an
\* order, oldest first.
OrdersOf(u) == SelectSeq(ledger.orders, LAMBDA o : o.userId = u)

\* C31: the trades of an account, read back with getTrades or with
\* getOpenTrades, are its accepted orders in the order they were placed:
\* each row has the account, the symbol and side of the order, the order's
\* size as its quantity (the same 5-decimal string), the strategy of the
\* signal, and status OPEN.
C31_TradeReadsBackAsOrdered ==
  \A u \in Users :
    /\ GetOpenTrades(u) = GetTrades(u)
    /\ Len(GetTrades(u)) <= Len(OrdersOf(u))
    /\ \A i \in 1..Len(GetTrades(u)) :
         LET row == GetTrades(u)[i]
             order == OrdersOf(u)[i]
         IN  /\ row.userId = u
             /\ row.symbol = order.symbol
             /\ row.side = order.side
             /\ SizeString(row.quantity) = order.size
             /\ row.strategy = order.strategy
             /\ row.status = "OPEN"

\* C31 case: an order of 0.001 (sent as the string 0.001, without the
\* trailing zeros of its five decimals) was accepted and its trade is read
\* back with quantity 0.00100, while the other account has a trade of its
\* own.
C31_Witness ==
  /\ Len(GetTrades(1)) = 1
  /\ GetTrades(1)[1].quantity = 100
  /\ OrdersOf(1)[1].size = [int |-> 0, frac |-> << 0, 0, 1 >>]
  /\ Len(GetOpenTrades(2)) = 1

\* C32: the signal a cycle holds behind the gate carries the symbol whose
\* candles the cycle evaluated, and every accepted order and every trade
\* row of an account that trades one symbol is for that symbol.
C32_OrderForEvaluatedSymbol ==
  /\ \A t \in BagToSet(ticks) :
       t.pc \in PostGate => t.signal.symbol = Head(t.symbols)
  /\ \A u \in Users :
       /\ \A i \in 1..Len(OrdersOf(u)) :
            OrdersOf(u)[i].symbol = settingsStore[u][1].symbol
       /\ \A i \in 1..Len(GetTrades(u)) :
            GetTrades(u)[i].symbol = settingsStore[u][1].symbol

\* C33: isActive returns true exactly when some account has an armed timer
\* (so it is false once every started account has been stopped).
C33_ActiveIffTimerArmed ==
  IsActive <=> (\E u \in Users : TimersOf(timers, u) > 0)

\* C34: one call of bitgetService.executeTrade has at most one order
\* accepted by the exchange, and every attempt it retries after is one in
\* which no order was accepted.
C34_AtMostOneOrderPerCall ==
  /\ retry.accepted <= 1
  /\ retry.status = "returned" => retry.accepted = 1

\* C35: once no cycle of an account is between its accepted order and the
\* answer of createTrade, the account has as many OPEN trade rows as it has
\* accepted orders (every accepted order has its row), whatever the storage
\* answered.
C35_EveryOrderHasItsTrade ==
  \A u \in Users :
    (\A t \in BagToSet(ticks) : t.user = u => t.pc # "createTrade") =>
      /\ Len(GetOpenTrades(u)) = Len(OrdersOf(u))
      /\ openTrades[u] = Len(OrdersOf(u))

\* C36: a cycle that ends with the failure update of its pair (successRate
\* := 0.7 * old) ends where it awaits the order submission: a cycle whose
\* order was accepted never gives its pair a failure update.
C36_FailureUpdateOnlyForFailedOrder ==
  [][\A t \in BagToSet(ticks) :
        ( /\ ticks' = Replace(t, AfterCycle(t))
          /\ Head(t.symbols) \in PairSymbols
          /\ pairPerformance'[Head(t.symbols)].lastUpdated =
               pairPerformance[Head(t.symbols)].lastUpdated + 1
          /\ 10 * pairPerformance'[Head(t.symbols)].successRate =
               7 * pairPerformance[Head(t.symbols)].successRate )
        => t.pc = "order"]_vars

\* C37: the balance a snapshot records was fetched after the order of its
\* cycle: every saveBalance of an account is preceded by a getAccountBalance
\* of that account that answered the recorded value and that itself came
\* after an accepted order of the account.
C37_SnapshotFetchedAfterOrder ==
  \A k \in 1..Len(ledger.calls) :
    ledger.calls[k].call = "saveBalance" =>
      \E i \in 1..(k - 1) :
        /\ ledger.calls[i] =
             Call("getAccountBalance", ledger.calls[k].userId, ledger.calls[k].value)
        /\ \E j \in 1..(i - 1) :
             /\ ledger.calls[j].call = "placeOrder"
             /\ ledger.calls[j].userId = ledger.calls[k].userId

\* C38: no step takes a row out of the OPEN trades of an account: the
\* number of OPEN rows never decreases, it grows by one row at a time and
\* only when a createTrade is answered; and from the moment an account has
\* maxConcurrentTrades OPEN rows on, no firing of its timer starts a tick
\* body.
C38_OpenTradesOnlyGrow ==
  [][\A u \in Users :
        /\ openTrades'[u] \in {openTrades[u], openTrades[u] + 1}
        /\ openTrades'[u] > openTrades[u] =>
             \E t \in BagToSet(ticks) :
               /\ t.user = u
               /\ t.pc = "createTrade"
               /\ ticks' = Replace(t, { [t EXCEPT !.pc = "saveBalance"] })
        /\ openTrades[u] >= maxConcurrentTrades =>
             /\ openTrades'[u] >= maxConcurrentTrades
             /\ ~ TickBegins(u)]_vars

\* C38 case: overlapping ticks took the account past the cap, to four OPEN
\* rows; a later firing of its timer was skipped, no tick is in flight and
\* the timer is still armed.
C38_Witness ==
  \E u \in Users :
    /\ openTrades[u] = maxConcurrentTrades + 1
    /\ capSkipped[u]
    /\ ticks = EmptyBag
    /\ TimersOf(timers, u) >= 1

\* C39: the candles a cycle waits for were requested for the timeframe of
\* the account's settings, the one the period of its timer was computed
\* from.
C39_CandlesOfConfiguredTimeframe ==
  \A t \in BagToSet(ticks) :
    t.pc = "candles" =>
      /\ GetHistoricalDataArgs(t).interval = t.settings.timeframe
      /\ ConvertTimeframeToMs(GetHistoricalDataArgs(t).interval) =
           NewInterval(t.user, t.settings).interval

\* C40: a MACD signal computed from a point whose histogram has the sign of
\* MACD - signal (as the histogram of the indicator library, which is
\* MACD - signal, has) carries a confidence above 75 and at most 95, and so
\* passes the gate at the default threshold.
C40_MacdSignalClearsDefaultThreshold ==
  ( /\ market.strategy = "MACD"
    /\ market.windows > 0
    /\ market.outcome.side # "none"
    /\ Sign(market.reading.current.histogram) =
         Sign(market.reading.current.MACD - market.reading.current.signal) ) =>
    /\ market.outcome.confidence > 75
    /\ market.outcome.confidence <= 95
    /\ PassesGate([NoSignal EXCEPT !.symbol = "BTCUSDT",
                                   !.side = market.outcome.side,
                                   !.strategy = "MACD",
                                   !.confidence = market.outcome.confidence],
                  InitialConfidenceThreshold)

\* C40 case: a buy on an upward crossover 0.2 wide with a positive
\* histogram, confidence 77, and the tick past the gate at threshold 70.
C40_Witness ==
  /\ market.strategy = "MACD"
  /\ market.outcome = [side |-> "buy", confidence |-> 77]
  /\ market.reading.current.MACD - market.reading.current.signal = 2
  /\ market.reading.current.histogram > 0
  /\ confidenceThreshold = InitialConfidenceThreshold
  /\ \E t \in BagToSet(ticks) : t.pc = "balance" /\ t.signal.confidence = 77

====
